---- MODULE Spec2Model ----
(***************************************************************************)
(* Forwarding pipeline of MultiSelectChannels: QueueManager (Redis lists   *)
(* and sorted sets), DeduplicationService and ForwardingEngine.            *)
(*                                                                         *)
(* Every await of the Python code is one step of the model; a coroutine's  *)
(* position between two awaits is part of the state.                       *)
(***************************************************************************)
EXTENDS Integers, Sequences, FiniteSets, TLC

VARIABLES
    now,            \* datetime.utcnow(), in seconds
    redis,          \* QueueManager.redis is connected (None before start)
    qm_running,     \* QueueManager._running
    running,        \* ForwardingEngine._running
    processing_tasks, \* ForwardingEngine._processing_tasks, by worker
    stop_pc,        \* where a call of ForwardingEngine.stop is
    redis_lists,    \* Redis lists, by key
    redis_zsets,    \* Redis sorted sets, by key: sets of [member, score]
    sw_pc,          \* position of each background processor
    sw_results,     \* its `results` still to be moved in the current pass
    sw_hold,        \* the message_json it removed and has not re-enqueued yet
    sw_wake,        \* when its asyncio.sleep ends
    sw_last_err,    \* when its last pass ended in the except branch
    w_pc,           \* position of each queue worker
    w_item,         \* the queue_item a worker holds
    produced,       \* number of items handed to enqueue_message by callers
    handoffs,       \* number of enqueue_retry / enqueue_flood_wait / enqueue_failed calls
    faults,         \* number of Redis commands that raised so far
    sent,           \* history: content of the items enqueue_message stored
    deq_log,        \* history: items returned by dequeue_message, in order
    phase,          \* "fill" / "drain" of the single-consumer scenario
    messages_log,   \* table messages_log, row id = position
    deduplication_cache,  \* table deduplication_cache
    calls,          \* number of process_new_message calls made so far
    c_pc,           \* position of each process_new_message call
    c_call,         \* its arguments
    c_mappings,     \* its `mappings`
    c_log_id,       \* id of its `message_log`
    c_outcome,      \* how the caller's last call ended
    c_blocked,      \* history: fingerprints admitted within the TTL when the call began
    c_cutoff,       \* cutoff_time of its cleanup_expired_entries call
    c_deleted,      \* what its last cleanup_expired_entries call returned
    admits,         \* history: admissions (record created and item enqueued)
    w_idx,          \* index of the mapping a worker forwards next
    w_fwd,          \* its forwarded_message_ids
    w_all_ok,       \* its all_successful
    w_err,          \* text of the exception it is handling
    w_outcomes,     \* history: what each _forward_single_message call for its item met
    st_pc,          \* position of each ForwardingEngine.start call
    tasks,          \* the asyncio tasks created by the start calls and not finished
    retry_processor_task,       \* QueueManager._retry_processor_task
    flood_wait_processor_task,  \* QueueManager._flood_wait_processor_task
    chat,           \* the messages of the source chat, by message id
    extracted,      \* what extract_message_data returned, by message id
    wr_last         \* the last QueueManager write call and how it ended

stop_vars == <<running, processing_tasks, stop_pc>>
start_vars == <<st_pc, tasks, retry_processor_task, flood_wait_processor_task>>
extract_vars == <<chat, extracted>>
other_vars == <<start_vars, extract_vars, wr_last>>
vars == <<now, redis, qm_running, stop_vars, other_vars, redis_lists, redis_zsets, sw_pc, sw_results,
          sw_hold, sw_wake, sw_last_err, w_pc, w_item, produced, handoffs, faults,
          sent, deq_log, phase, messages_log, deduplication_cache, calls, c_cutoff, c_deleted,
          c_pc, c_call,
          c_mappings, c_log_id, c_outcome, c_blocked, admits, w_idx, w_fwd, w_all_ok, w_err,
          w_outcomes>>

queue_vars == <<redis_lists, redis_zsets>>
sweeper_vars == <<sw_pc, sw_results, sw_hold, sw_wake, sw_last_err>>
worker_vars == <<w_pc, w_item>>
hist_vars == <<sent, deq_log, phase>>
db_vars == <<messages_log, deduplication_cache>>
caller_vars == <<calls, c_pc, c_call, c_mappings, c_log_id, c_outcome, c_blocked, admits,
                 c_cutoff, c_deleted>>
proc_vars == <<w_idx, w_fwd, w_all_ok, w_err, w_outcomes>>
engine_vars == <<db_vars, caller_vars, proc_vars>>

----------------------------------------------------------------------------
(* Bounds of the model *)

MaxItems == 2
MaxHandoffs == 2
MaxFill == 4
MaxTime == 20
MaxFaults == 1
MaxDbFaults == 2
MaxHours == 36
ClockStepHours == 12
NumWorkers == 1

NumCallers == 2
MaxCalls == 2

Workers == 1..NumWorkers
Callers == 1..NumCallers
Sources == {100, 200}
MessageIds == {1, 2}
Fingerprints == {"abc", "xyz"}
Hashes == {"abc", ""}    \* "": message data without a content_hash
Priorities == {0, 3, 5}
Delays == {0, 5}
AttemptCounts == {0, 2}

(* Program constants *)

cache_ttl_hours == 24
max_retry_attempts == 3
RetrySleep == 10
FloodWaitSleep == 15
ErrorSleep == 30

main_queue == "forwarding:messages"
priority_queue == "forwarding:messages:priority"
retry_queue == "forwarding:retry"
failed_queue == "forwarding:failed"
flood_wait_queue == "forwarding:flood_wait"

ListKeys == {main_queue, failed_queue}
ZSetKeys == {priority_queue, retry_queue, flood_wait_queue}

Sweepers == {"retry", "flood_wait"}

(* the calls of ForwardingEngine.start, and the asyncio tasks they create: *)
(* the i-th worker or a background processor created by call `by`          *)
MaxStarts == 3
StartCalls == 1..MaxStarts
Task(kind, by, i) == [kind |-> kind, by |-> by, i |-> i]
NoTask == Task("none", 0, 0)

(* a call of one of the four enqueue methods for the item with this        *)
(* message_log_id, and whether it returned or raised                       *)
Write(op, id, outcome) == [op |-> op, id |-> id, outcome |-> outcome]
NoWrite == Write("none", 0, "none")
SweepKey(sw) == IF sw = "retry" THEN retry_queue ELSE flood_wait_queue
(* the two sleep durations are swapped *)
SweepSleep_swapped(sw) == IF sw = "retry" THEN FloodWaitSleep ELSE RetrySleep
SweepSleep(sw) == IF sw = "retry" THEN RetrySleep ELSE FloodWaitSleep

----------------------------------------------------------------------------
(* Python values.  An integer field holds -1 and a string field "" when    *)
(* the key is absent from the dict.                                        *)

Mapping(dest, mode, sa, da) ==
    [dest_channel_id |-> dest, mode |-> mode, source_access |-> sa, dest_access |-> da]

MessageData(hash, date) == [content_hash |-> hash, date |-> date]

QueueItem(log_id, src, mid, maps, data) ==
    [message_log_id |-> log_id, source_channel_id |-> src, message_id |-> mid,
     mappings |-> maps, message_data |-> data, created_at |-> now,
     enqueued_at |-> -1, priority |-> -1, attempts |-> -1,
     retry_after |-> -1, flood_wait_until |-> -1, flood_wait_duration |-> -1, failed_at |-> -1,
     final_error |-> "", final_attempts |-> -1]

NoItem == [message_log_id |-> -1, source_channel_id |-> -1, message_id |-> -1,
           mappings |-> <<>>, message_data |-> MessageData("", "None"), created_at |-> -1,
           enqueued_at |-> -1, priority |-> -1, attempts |-> -1,
           retry_after |-> -1, flood_wait_until |-> -1, flood_wait_duration |-> -1, failed_at |-> -1,
           final_error |-> "", final_attempts |-> -1]

Content(d) ==
    [message_log_id |-> d.message_log_id, source_channel_id |-> d.source_channel_id,
     message_id |-> d.message_id, mappings |-> d.mappings, message_data |-> d.message_data]

NoCall == [source_channel_id |-> -1, message_id |-> -1, message_data |-> MessageData("", "None")]

(* Python values that are None, an int or a str *)
PyNone == [type |-> "NoneType", int |-> 0, str |-> ""]
PyInt(n) == [type |-> "int", int |-> n, str |-> ""]
PyStr(t) == [type |-> "str", int |-> 0, str |-> t]

(* the Telethon messages a chat can hold: text, whether media is attached, *)
(* and from_id (None for a channel post)                                   *)
Texts == {"", "hello", "bye"}
Authors == {PyNone, PyInt(7), PyInt(8)}
NoMessage == [present |-> FALSE, text |-> "", media |-> FALSE, from_id |-> PyNone]
TelethonMessage(text, media, from_id) ==
    [present |-> TRUE, text |-> text, media |-> media, from_id |-> from_id]

(* message_data.get(key, 0) *)
GetOrZero(v) == IF v < 0 THEN 0 ELSE v

----------------------------------------------------------------------------
(* json.dumps / json.loads.  A number is written as its decimal digits, an *)
(* absent key as no digits; a datetime is not serializable.                *)

RECURSIVE IntToDigits(_)
IntToDigits(n) == IF n < 10 THEN <<n>> ELSE Append(IntToDigits(n \div 10), n % 10)

RECURSIVE DigitsToInt(_)
DigitsToInt(ds) ==
    IF Len(ds) = 1 THEN ds[1]
    ELSE 10 * DigitsToInt(SubSeq(ds, 1, Len(ds) - 1)) + ds[Len(ds)]

JsonNumber(n) == IF n < 0 THEN <<>> ELSE IntToDigits(n)
PyNumber(ds) == IF ds = <<>> THEN -1 ELSE DigitsToInt(ds)

JsonSerializable(d) == d.message_data.date # "datetime"

JsonDumps(d) ==
    [message_log_id |-> JsonNumber(d.message_log_id),
     source_channel_id |-> JsonNumber(d.source_channel_id),
     message_id |-> JsonNumber(d.message_id),
     mappings |-> [i \in 1..Len(d.mappings) |->
                     [dest_channel_id |-> JsonNumber(d.mappings[i].dest_channel_id),
                      mode |-> d.mappings[i].mode,
                      source_access |-> d.mappings[i].source_access,
                      dest_access |-> d.mappings[i].dest_access]],
     message_data |-> [content_hash |-> d.message_data.content_hash,
                       date |-> IF d.message_data.date = "None" THEN "null"
                                ELSE d.message_data.date],
     created_at |-> JsonNumber(d.created_at),
     enqueued_at |-> JsonNumber(d.enqueued_at),
     priority |-> JsonNumber(d.priority),
     attempts |-> JsonNumber(d.attempts),
     retry_after |-> JsonNumber(d.retry_after),
     flood_wait_until |-> JsonNumber(d.flood_wait_until),
     flood_wait_duration |-> JsonNumber(d.flood_wait_duration),
     failed_at |-> JsonNumber(d.failed_at),
     final_error |-> d.final_error,
     final_attempts |-> JsonNumber(d.final_attempts)]

JsonLoads(j) ==
    [message_log_id |-> PyNumber(j.message_log_id),
     source_channel_id |-> PyNumber(j.source_channel_id),
     message_id |-> PyNumber(j.message_id),
     mappings |-> [i \in 1..Len(j.mappings) |->
                     [dest_channel_id |-> PyNumber(j.mappings[i].dest_channel_id),
                      mode |-> j.mappings[i].mode,
                      source_access |-> j.mappings[i].source_access,
                      dest_access |-> j.mappings[i].dest_access]],
     message_data |-> [content_hash |-> j.message_data.content_hash,
                       date |-> IF j.message_data.date = "null" THEN "None"
                                ELSE j.message_data.date],
     created_at |-> PyNumber(j.created_at),
     enqueued_at |-> PyNumber(j.enqueued_at),
     priority |-> PyNumber(j.priority),
     attempts |-> PyNumber(j.attempts),
     retry_after |-> PyNumber(j.retry_after),
     flood_wait_until |-> PyNumber(j.flood_wait_until),
     flood_wait_duration |-> PyNumber(j.flood_wait_duration),
     failed_at |-> PyNumber(j.failed_at),
     final_error |-> j.final_error,
     final_attempts |-> PyNumber(j.final_attempts)]

----------------------------------------------------------------------------
(* Redis commands *)

(* rpush instead of lpush *)
LPush_rpush(list, m) == list \o <<m>>
LPush(list, m) == <<m>> \o list
RPopValue(list) == list[Len(list)]
(* the reply is read and the element stays at the tail *)
RPopRest_keeps(list) == list

RPopRest(list) == SubSeq(list, 1, Len(list) - 1)

ZAdd(z, m, score) == {e \in z : e.member # m} \cup {[member |-> m, score |-> score]}
ZRem(z, m) == {e \in z : e.member # m}

(* Members of equal score are ordered as byte strings; the serialized      *)
(* item starts with its message_log_id, followed by a comma.               *)
RECURSIVE DigitsLexLess(_, _)
DigitsLexLess(a, b) ==
    IF a = <<>> THEN b # <<>>
    ELSE IF b = <<>> THEN FALSE
    ELSE IF Head(a) # Head(b) THEN Head(a) < Head(b)
    ELSE DigitsLexLess(Tail(a), Tail(b))

ZBefore(e, f) ==
    \/ e.score < f.score
    \/ e.score = f.score /\ DigitsLexLess(e.member.message_log_id, f.member.message_log_id)

ZMax(z) == CHOOSE e \in z : \A f \in z : ~ZBefore(e, f)
ZMin(z) == CHOOSE e \in z : \A f \in z : ~ZBefore(f, e)

RECURSIVE ZSorted(_)
ZSorted(z) == IF z = {} THEN <<>> ELSE <<ZMin(z).member>> \o ZSorted(z \ {ZMin(z)})

(* the upper bound of the range is not applied *)
ZRangeByScore_unbounded(z, lo, hi) == ZSorted({e \in z : lo <= e.score})
ZRangeByScore(z, lo, hi) == ZSorted({e \in z : lo <= e.score /\ e.score <= hi})

----------------------------------------------------------------------------
(* Initial state: the objects as constructed, nothing started *)

NoJson == JsonDumps(NoItem)

Init ==
    /\ now = 0
    /\ redis = FALSE
    /\ qm_running = FALSE
    /\ running = FALSE
    /\ processing_tasks = {}
    /\ stop_pc = "none"
    /\ redis_lists = [k \in ListKeys |-> <<>>]
    /\ redis_zsets = [k \in ZSetKeys |-> {}]
    /\ sw_pc = [sw \in Sweepers |-> "off"]
    /\ sw_results = [sw \in Sweepers |-> <<>>]
    /\ sw_hold = [sw \in Sweepers |-> NoJson]
    /\ sw_wake = [sw \in Sweepers |-> 0]
    /\ sw_last_err = [sw \in Sweepers |-> 0 - ErrorSleep]
    /\ w_pc = [w \in Workers |-> "off"]
    /\ w_item = [w \in Workers |-> NoItem]
    /\ produced = 0
    /\ handoffs = 0
    /\ faults = 0
    /\ sent = <<>>
    /\ deq_log = <<>>
    /\ phase = "fill"
    /\ messages_log = <<>>
    /\ deduplication_cache = {}
    /\ calls = 0
    /\ c_cutoff = [c \in Callers |-> 0]
    /\ c_deleted = [c \in Callers |-> 0]
    /\ c_pc = [c \in Callers |-> "idle"]
    /\ c_call = [c \in Callers |-> NoCall]
    /\ c_mappings = [c \in Callers |-> <<>>]
    /\ c_log_id = [c \in Callers |-> 0]
    /\ c_outcome = [c \in Callers |-> "none"]
    /\ c_blocked = [c \in Callers |-> {}]
    /\ admits = {}
    /\ w_idx = [w \in Workers |-> 0]
    /\ w_fwd = [w \in Workers |-> {}]
    /\ w_all_ok = [w \in Workers |-> TRUE]
    /\ w_err = [w \in Workers |-> ""]
    /\ w_outcomes = [w \in Workers |-> <<>>]
    /\ st_pc = [s \in StartCalls |-> "none"]
    /\ tasks = {}
    /\ retry_processor_task = NoTask
    /\ flood_wait_processor_task = NoTask
    /\ chat = [mid \in MessageIds |-> NoMessage]
    /\ extracted = [mid \in MessageIds |-> <<>>]
    /\ wr_last = NoWrite

----------------------------------------------------------------------------
(* ForwardingEngine.start: QueueManager.start connects to Redis and        *)
(* creates the two background processors, then the workers are created.    *)

Start ==
    /\ UNCHANGED engine_vars
    /\ ~running
    /\ ~qm_running
    /\ stop_pc = "none"
    /\ redis' = TRUE
    /\ qm_running' = TRUE
    /\ running' = TRUE
    /\ processing_tasks' = Workers
    /\ UNCHANGED stop_pc
    /\ sw_pc' = [sw \in Sweepers |-> "sleep"]
    /\ sw_wake' = [sw \in Sweepers |-> now]
    /\ w_pc' = [w \in Workers |-> "idle"]
    /\ UNCHANGED <<now, other_vars, queue_vars, sw_results, sw_hold,
                   sw_last_err, w_item, produced, handoffs, faults, hist_vars>>

----------------------------------------------------------------------------
(* QueueManager.enqueue_message .. enqueue_failed: the dict as it is       *)
(* serialized, and the Redis command that stores it.                       *)

(* the metadata replaces the item's message_data *)
EnqueuedItem_overwrites(d, priority) ==
    [d EXCEPT !.enqueued_at = now, !.priority = priority, !.attempts = 0,
              !.message_data = MessageData("", "None")]

EnqueuedItem(d, priority) ==
    [d EXCEPT !.enqueued_at = now, !.priority = priority, !.attempts = 0]

EnqueueMessage(d, priority) ==
    IF priority > 0
    THEN /\ redis_zsets' = [redis_zsets EXCEPT ![priority_queue] =
                              ZAdd(@, JsonDumps(EnqueuedItem(d, priority)), priority)]
         /\ UNCHANGED redis_lists
    ELSE /\ redis_lists' = [redis_lists EXCEPT ![main_queue] =
                              LPush(@, JsonDumps(EnqueuedItem(d, priority)))]
         /\ UNCHANGED redis_zsets

(* the attempt counter is stored as it was *)
RetryItem_keeps(d, delay_seconds) ==
    [d EXCEPT !.attempts = GetOrZero(d.attempts), !.retry_after = now + delay_seconds]

RetryItem(d, delay_seconds) ==
    [d EXCEPT !.attempts = GetOrZero(d.attempts) + 1, !.retry_after = now + delay_seconds]

EnqueueRetry(d, delay_seconds) ==
    /\ redis_zsets' = [redis_zsets EXCEPT ![retry_queue] =
                         ZAdd(@, JsonDumps(RetryItem(d, delay_seconds)), now + delay_seconds)]
    /\ UNCHANGED redis_lists

FloodWaitItem(d, wait_seconds) ==
    [d EXCEPT !.flood_wait_until = now + wait_seconds, !.flood_wait_duration = wait_seconds]

EnqueueFloodWait(d, wait_seconds) ==
    /\ redis_zsets' = [redis_zsets EXCEPT ![flood_wait_queue] =
                         ZAdd(@, JsonDumps(FloodWaitItem(d, wait_seconds)), now + wait_seconds)]
    /\ UNCHANGED redis_lists

FailedItem(d, error_message) ==
    [d EXCEPT !.failed_at = now, !.final_error = error_message,
              !.final_attempts = GetOrZero(d.attempts)]

(* the failed queue is overwritten with the new item *)
EnqueueFailed_replaces(d, error_message) ==
    /\ redis_lists' = [redis_lists EXCEPT ![failed_queue] = <<JsonDumps(FailedItem(d, error_message))>>]
    /\ UNCHANGED redis_zsets

EnqueueFailed(d, error_message) ==
    /\ redis_lists' = [redis_lists EXCEPT ![failed_queue] =
                         LPush(@, JsonDumps(FailedItem(d, error_message)))]
    /\ UNCHANGED redis_zsets

(* A Redis command raises: nothing is stored. *)
RedisRaises ==
    /\ faults < MaxFaults
    /\ faults' = faults + 1

----------------------------------------------------------------------------
(* A caller of QueueManager.enqueue_message with a new item *)

NewItem(date) ==
    QueueItem(produced + 1, 100, 40 + produced, <<Mapping(8, "forward", "bot", "user")>>,
              MessageData("abc", date))

Produce(priority, date, limit) ==
    /\ UNCHANGED engine_vars
    /\ produced < limit
    /\ produced' = produced + 1
    /\ UNCHANGED <<now, redis, qm_running, stop_vars, other_vars, sweeper_vars,
                   worker_vars, handoffs, deq_log, phase>>
    /\ \/ /\ ~redis \/ ~JsonSerializable(NewItem(date))
          /\ UNCHANGED <<queue_vars, faults, sent>>
       \/ /\ redis /\ JsonSerializable(NewItem(date))
          /\ RedisRaises
          /\ UNCHANGED <<queue_vars, sent>>
       \/ /\ redis /\ JsonSerializable(NewItem(date))
          /\ EnqueueMessage(NewItem(date), priority)
          /\ sent' = Append(sent, Content(NewItem(date)))
          /\ UNCHANGED faults

----------------------------------------------------------------------------
(* QueueManager.dequeue_message, as a worker runs it: zpopmax on the       *)
(* priority set, then brpop on the list.                                   *)

(* the exception reaches the caller *)
DequeueExcept_raises == "backoff"

(* except Exception: return None; the caller is where it was before the call *)
DequeueExcept == "idle"

(* if not self.redis: return None *)
DequeueNoRedis(w) ==
    /\ UNCHANGED engine_vars
    /\ w_pc[w] \in {"off", "none"}
    /\ ~redis
    /\ w_pc' = [w_pc EXCEPT ![w] = "none"]
    /\ UNCHANGED <<now, redis, qm_running, stop_vars, other_vars, queue_vars,
                   sweeper_vars, w_item, produced,
                   handoffs, faults, hist_vars>>

DequeueZPopMax(w) ==
    /\ UNCHANGED engine_vars
    /\ w_pc[w] = "idle"
    /\ redis
    /\ UNCHANGED <<now, redis, qm_running, stop_vars, other_vars, sweeper_vars,
                   produced, handoffs, sent, phase, redis_lists>>
    /\ \/ /\ RedisRaises
          /\ w_pc' = [w_pc EXCEPT ![w] = DequeueExcept]
          /\ UNCHANGED <<redis_zsets, w_item>>
       \/ /\ redis_zsets[priority_queue] # {}
          /\ redis_zsets' = [redis_zsets EXCEPT ![priority_queue] = @ \ {ZMax(@)}]
          /\ w_item' = [w_item EXCEPT ![w] = JsonLoads(ZMax(redis_zsets[priority_queue]).member)]
          /\ w_pc' = [w_pc EXCEPT ![w] = "got"]
          /\ UNCHANGED faults
       \/ /\ redis_zsets[priority_queue] = {}
          /\ w_pc' = [w_pc EXCEPT ![w] = "brpop"]
          /\ UNCHANGED <<redis_zsets, w_item, faults>>

DequeueBRPop(w) ==
    /\ UNCHANGED engine_vars
    /\ w_pc[w] = "brpop"
    /\ UNCHANGED <<now, redis, qm_running, stop_vars, other_vars, sweeper_vars,
                   produced, handoffs, sent, phase, redis_zsets>>
    /\ \/ /\ RedisRaises
          /\ w_pc' = [w_pc EXCEPT ![w] = DequeueExcept]
          /\ UNCHANGED <<redis_lists, w_item>>
       \/ /\ redis_lists[main_queue] # <<>>
          /\ redis_lists' = [redis_lists EXCEPT ![main_queue] = RPopRest(@)]
          /\ w_item' = [w_item EXCEPT ![w] = JsonLoads(RPopValue(redis_lists[main_queue]))]
          /\ w_pc' = [w_pc EXCEPT ![w] = "got"]
          /\ UNCHANGED faults
       \/ /\ redis_lists[main_queue] = <<>>
          /\ w_pc' = [w_pc EXCEPT ![w] = "idle"]
          /\ UNCHANGED <<redis_lists, w_item, faults>>

(* The holder of a dequeued item hands it to exactly one queue, or is done *)
(* with it.                                                                *)

Release(w) ==
    /\ w_pc' = [w_pc EXCEPT ![w] = "idle"]
    /\ w_item' = [w_item EXCEPT ![w] = NoItem]

ApiCall(w, Stored) ==
    /\ UNCHANGED engine_vars
    /\ w_pc[w] = "got"
    /\ handoffs < MaxHandoffs
    /\ handoffs' = handoffs + 1
    /\ Release(w)
    /\ UNCHANGED <<now, redis, qm_running, stop_vars, other_vars, sweeper_vars,
                   produced, hist_vars>>
    /\ \/ RedisRaises /\ UNCHANGED queue_vars
       \/ Stored /\ UNCHANGED faults

ApiEnqueueRetry(w, delay_seconds) == ApiCall(w, EnqueueRetry(w_item[w], delay_seconds))
(* the caller passes the item in hand with the attempt count it gives it *)
ApiEnqueueFloodWait(w, attempts, wait_seconds) ==
    ApiCall(w, EnqueueFloodWait([w_item[w] EXCEPT !.attempts = attempts], wait_seconds))
ApiEnqueueFailed(w) == ApiCall(w, EnqueueFailed(w_item[w], "error"))

ApiDone(w) ==
    /\ UNCHANGED engine_vars
    /\ w_pc[w] = "got"
    /\ Release(w)
    /\ UNCHANGED <<now, redis, qm_running, stop_vars, other_vars, queue_vars,
                   sweeper_vars, produced, handoffs, faults, hist_vars>>

----------------------------------------------------------------------------
(* QueueManager._process_retry_queue / _process_flood_wait_queue *)

SweepSleepAfter(sw, seconds) ==
    /\ sw_pc' = [sw_pc EXCEPT ![sw] = "sleep"]
    /\ sw_wake' = [sw_wake EXCEPT ![sw] = now + seconds]

SweepRead(sw) ==
    /\ UNCHANGED engine_vars
    /\ qm_running
    /\ sw_pc[sw] = "sleep"
    /\ now >= sw_wake[sw]
    /\ LET results == ZRangeByScore(redis_zsets[SweepKey(sw)], 0, now)
       IN IF results = <<>>
          THEN SweepSleepAfter(sw, SweepSleep(sw)) /\ UNCHANGED sw_results
          ELSE /\ sw_pc' = [sw_pc EXCEPT ![sw] = "zrem"]
               /\ sw_results' = [sw_results EXCEPT ![sw] = results]
               /\ UNCHANGED sw_wake
    /\ UNCHANGED <<now, redis, qm_running, stop_vars, other_vars, queue_vars, sw_hold,
                   sw_last_err, worker_vars,
                   produced, handoffs, faults, hist_vars>>

(* the message is not removed from the sorted set *)
SweepZRem_keeps(sw) ==
    /\ UNCHANGED engine_vars
    /\ sw_pc[sw] = "zrem"
    /\ sw_hold' = [sw_hold EXCEPT ![sw] = Head(sw_results[sw])]
    /\ sw_pc' = [sw_pc EXCEPT ![sw] = "enqueue"]
    /\ UNCHANGED <<now, redis, qm_running, stop_vars, other_vars, queue_vars,
                   sw_results, sw_wake, sw_last_err,
                   worker_vars, produced, handoffs, faults, hist_vars>>

SweepZRem(sw) ==
    /\ UNCHANGED engine_vars
    /\ sw_pc[sw] = "zrem"
    /\ redis_zsets' = [redis_zsets EXCEPT ![SweepKey(sw)] = ZRem(@, Head(sw_results[sw]))]
    /\ sw_hold' = [sw_hold EXCEPT ![sw] = Head(sw_results[sw])]
    /\ sw_pc' = [sw_pc EXCEPT ![sw] = "enqueue"]
    /\ UNCHANGED <<now, redis, qm_running, stop_vars, other_vars, redis_lists,
                   sw_results, sw_wake, sw_last_err,
                   worker_vars, produced, handoffs, faults, hist_vars>>

SweepEnqueue(sw) ==
    /\ UNCHANGED engine_vars
    /\ sw_pc[sw] = "enqueue"
    /\ EnqueueMessage(JsonLoads(sw_hold[sw]), 0)
    /\ sw_hold' = [sw_hold EXCEPT ![sw] = NoJson]
    /\ sw_results' = [sw_results EXCEPT ![sw] = Tail(@)]
    /\ IF Tail(sw_results[sw]) = <<>>
       THEN SweepSleepAfter(sw, SweepSleep(sw))
       ELSE sw_pc' = [sw_pc EXCEPT ![sw] = "zrem"] /\ UNCHANGED sw_wake
    /\ UNCHANGED <<now, redis, qm_running, stop_vars, other_vars, sw_last_err,
                   worker_vars, produced, handoffs, faults, hist_vars>>

(* except Exception: the pass is abandoned where it is *)
SweepError(sw) ==
    /\ UNCHANGED engine_vars
    /\ qm_running
    /\ \/ sw_pc[sw] = "sleep" /\ now >= sw_wake[sw]
       \/ sw_pc[sw] \in {"zrem", "enqueue"}
    /\ RedisRaises
    /\ SweepSleepAfter(sw, ErrorSleep)
    /\ sw_results' = [sw_results EXCEPT ![sw] = <<>>]
    /\ sw_hold' = [sw_hold EXCEPT ![sw] = NoJson]
    /\ sw_last_err' = [sw_last_err EXCEPT ![sw] = now]
    /\ UNCHANGED <<now, redis, qm_running, stop_vars, other_vars, queue_vars,
                   worker_vars, produced, handoffs, hist_vars>>

ProcessRetryQueue ==
    SweepRead("retry") \/ SweepZRem("retry") \/ SweepEnqueue("retry") \/ SweepError("retry")

ProcessFloodWaitQueue ==
    \/ SweepRead("flood_wait") \/ SweepZRem("flood_wait")
    \/ SweepEnqueue("flood_wait") \/ SweepError("flood_wait")

----------------------------------------------------------------------------
(* The clock.  Time is counted from the start of the queue manager and     *)
(* moves to the next instant at which something is due: the end of a       *)
(* processor's sleep or the ready-at of a delayed item.  A processor whose *)
(* sleep has ended runs its pass before time moves on.                     *)

DueTimes ==
    {sw_wake[sw] : sw \in Sweepers}
      \cup {e.score : e \in redis_zsets[retry_queue] \cup redis_zsets[flood_wait_queue]}

Tick ==
    /\ UNCHANGED engine_vars
    /\ qm_running
    /\ \A sw \in Sweepers : sw_pc[sw] = "sleep" /\ sw_wake[sw] > now
    /\ \E t \in DueTimes :
          /\ t > now /\ t <= MaxTime
          /\ \A sw \in Sweepers : t <= sw_wake[sw]
          /\ now' = t
    /\ UNCHANGED <<redis, qm_running, stop_vars, other_vars, queue_vars, sweeper_vars,
                   worker_vars, produced,
                   handoffs, faults, hist_vars>>

----------------------------------------------------------------------------
(* The queue manager under callers of its whole interface *)

QueueNext ==
    \/ Start
    \/ \E p \in {0, 5} : Produce(p, "None", MaxItems)
    \/ \E w \in Workers : DequeueNoRedis(w)
    \/ \E w \in Workers : DequeueZPopMax(w) /\ UNCHANGED deq_log
    \/ \E w \in Workers : DequeueBRPop(w) /\ UNCHANGED deq_log
    \/ \E w \in Workers, d \in Delays : ApiEnqueueRetry(w, d)
    \/ \E w \in Workers, d \in Delays : ApiEnqueueFloodWait(w, w_item[w].attempts, d)
    \/ \E w \in Workers : ApiEnqueueFailed(w)
    \/ \E w \in Workers : ApiDone(w)
    \/ ProcessRetryQueue
    \/ ProcessFloodWaitQueue
    \/ Tick

SpecQueue == Init /\ [][QueueNext]_vars

----------------------------------------------------------------------------
(* Rate limiting alone: the consumer keeps its own count of the attempts   *)
(* made for an item and passes it on with the item when the transport      *)
(* tells it to wait.                                                       *)

FloodWaitNext ==
    \/ Start
    \/ Produce(0, "None", MaxItems)
    \/ \E w \in Workers : DequeueZPopMax(w) /\ UNCHANGED deq_log
    \/ \E w \in Workers : DequeueBRPop(w) /\ UNCHANGED deq_log
    \/ \E w \in Workers, a \in AttemptCounts, d \in Delays : ApiEnqueueFloodWait(w, a, d)
    \/ \E w \in Workers : ApiDone(w)
    \/ ProcessRetryQueue
    \/ ProcessFloodWaitQueue
    \/ Tick

SpecFloodWait == Init /\ [][FloodWaitNext]_vars

----------------------------------------------------------------------------
(* A single consumer drains what was enqueued before it started reading *)

BeginDrain ==
    /\ UNCHANGED engine_vars
    /\ phase = "fill"
    /\ qm_running
    /\ phase' = "drain"
    /\ UNCHANGED <<now, redis, qm_running, stop_vars, other_vars, queue_vars,
                   sweeper_vars, worker_vars, produced,
                   handoffs, faults, sent, deq_log>>

Returned(w) ==
    deq_log' = IF w_pc'[w] = "got" THEN Append(deq_log, w_item'[w]) ELSE deq_log

DrainNext ==
    \/ Start
    \/ \E p \in Priorities, date \in {"None", "datetime"} :
          phase = "fill" /\ Produce(p, date, MaxFill)
    \/ BeginDrain
    \/ phase = "drain" /\ DequeueZPopMax(1) /\ Returned(1)
    \/ phase = "drain" /\ DequeueBRPop(1) /\ Returned(1)
    \/ ApiDone(1)

SpecDrain == Init /\ [][DrainNext]_vars

----------------------------------------------------------------------------
(* The tables the engine reads: channels and forwarding_mappings.  Source  *)
(* 100 has two enabled rules, one of them to the deactivated channel 400;  *)
(* source 200 has one rule and it is disabled.                             *)

channels ==
    {[id |-> 1, telegram_id |-> 100, is_active |-> TRUE, access_type |-> "user"],
     [id |-> 2, telegram_id |-> 200, is_active |-> TRUE, access_type |-> "bot"],
     [id |-> 3, telegram_id |-> 300, is_active |-> TRUE, access_type |-> "bot"],
     [id |-> 4, telegram_id |-> 400, is_active |-> FALSE, access_type |-> "user"]}

forwarding_mappings ==
    {[source_channel_id |-> 1, dest_channel_id |-> 3, mode |-> "forward", enabled |-> TRUE],
     [source_channel_id |-> 1, dest_channel_id |-> 4, mode |-> "copy", enabled |-> TRUE],
     [source_channel_id |-> 2, dest_channel_id |-> 3, mode |-> "forward", enabled |-> FALSE]}

ChannelById(id) == CHOOSE ch \in channels : ch.id = id
ChannelByTelegramId(tid) == CHOOSE ch \in channels : ch.telegram_id = tid

RECURSIVE ByDest(_)
ByDest(ms) ==
    IF ms = {} THEN <<>>
    ELSE LET m == CHOOSE x \in ms : \A y \in ms : x.dest_channel_id <= y.dest_channel_id
         IN <<m>> \o ByDest(ms \ {m})

(* the enabled flag is not tested *)
GetForwardingMappings_all(source_channel_id) ==
    ByDest({m \in forwarding_mappings :
              /\ ChannelById(m.source_channel_id).telegram_id = source_channel_id
              /\ ChannelById(m.source_channel_id).is_active})

(* ForwardingEngine._get_forwarding_mappings *)
GetForwardingMappings(source_channel_id) ==
    ByDest({m \in forwarding_mappings :
              /\ ChannelById(m.source_channel_id).telegram_id = source_channel_id
              /\ m.enabled
              /\ ChannelById(m.source_channel_id).is_active})

(* the 'mappings' list of the queue item *)
(* the item forwards to the first resolved rule only *)
ItemMappings_first(ms) ==
    [i \in 1..1 |->
        Mapping(ms[i].dest_channel_id, ms[i].mode,
                ChannelById(ms[i].source_channel_id).access_type,
                ChannelById(ms[i].dest_channel_id).access_type)]

ItemMappings(ms) ==
    [i \in 1..Len(ms) |->
        Mapping(ms[i].dest_channel_id, ms[i].mode,
                ChannelById(ms[i].source_channel_id).access_type,
                ChannelById(ms[i].dest_channel_id).access_type)]

(* the entry is still valid at its expiry time *)
IsCacheValid_inclusive(created_at) == now <= created_at + cache_ttl_hours * 3600

(* DeduplicationService._is_cache_valid *)
IsCacheValid(created_at) == now < created_at + cache_ttl_hours * 3600

(* a database statement raises, or `async with get_db_session()` does: the *)
(* session layer (database/connection.py) is a collaborator of the         *)
(* pipeline and is taken to work except where it raises here               *)
DbRaises ==
    /\ faults < MaxDbFaults
    /\ faults' = faults + 1

----------------------------------------------------------------------------
(* ForwardingEngine.process_new_message, one step per await *)

Call(c, source_channel_id, message_id, hash) ==
    /\ c_pc[c] = "idle"
    /\ calls < MaxCalls
    /\ calls' = calls + 1
    /\ c_pc' = [c_pc EXCEPT ![c] = "is_duplicate"]
    /\ c_call' = [c_call EXCEPT ![c] =
                    [source_channel_id |-> source_channel_id, message_id |-> message_id,
                     message_data |-> MessageData(hash, "None")]]
    /\ c_outcome' = [c_outcome EXCEPT ![c] = "running"]
    /\ c_blocked' = [c_blocked EXCEPT ![c] =
                       {e.content_hash : e \in {a \in admits : a.content_hash # "" /\ IsCacheValid(a.at)}}]
    /\ UNCHANGED <<now, redis, qm_running, stop_vars, other_vars, queue_vars,
                   sweeper_vars, worker_vars, produced,
                   handoffs, faults, hist_vars, db_vars, c_mappings, c_log_id, admits,
                   c_cutoff, c_deleted, proc_vars>>

(* process_new_message returns: its arguments and locals are gone *)
EndCall(c, outcome) ==
    /\ c_pc' = [c_pc EXCEPT ![c] = "idle"]
    /\ c_outcome' = [c_outcome EXCEPT ![c] = outcome]
    /\ c_call' = [c_call EXCEPT ![c] = NoCall]
    /\ c_mappings' = [c_mappings EXCEPT ![c] = <<>>]
    /\ c_log_id' = [c_log_id EXCEPT ![c] = 0]
    /\ c_blocked' = [c_blocked EXCEPT ![c] = {}]

(* process_new_message goes on to its next await *)
GoOn(c, pc) ==
    /\ c_pc' = [c_pc EXCEPT ![c] = pc]
    /\ UNCHANGED <<c_outcome, c_call, c_blocked>>

(* the lookup reports a duplicate when the database raises *)
IsDuplicateExcept_closed == TRUE

(* is_duplicate: except Exception: log, return False *)
IsDuplicateExcept == FALSE

(* DeduplicationService.is_duplicate *)
IsDuplicate(c) ==
    /\ c_pc[c] = "is_duplicate"
    /\ UNCHANGED <<now, redis, qm_running, stop_vars, other_vars, queue_vars,
                   sweeper_vars, worker_vars, produced,
                   handoffs, hist_vars, messages_log, calls, c_cutoff, c_deleted, admits, proc_vars>>
    /\ LET hash == c_call[c].message_data.content_hash
           existing == {e \in deduplication_cache : e.content_hash = hash}
       IN \/ /\ hash # ""
             /\ DbRaises
             /\ UNCHANGED deduplication_cache
             /\ IF IsDuplicateExcept
                THEN EndCall(c, "duplicate")
                ELSE GoOn(c, "get_mappings") /\ UNCHANGED <<c_mappings, c_log_id>>
          \/ /\ UNCHANGED faults
             /\ IF hash # "" /\ \E e \in existing : IsCacheValid(e.created_at)
                THEN EndCall(c, "duplicate") /\ UNCHANGED deduplication_cache
                ELSE /\ deduplication_cache' =
                          IF hash = "" THEN deduplication_cache
                          ELSE deduplication_cache \ existing
                     /\ GoOn(c, "get_mappings")
                     /\ UNCHANGED <<c_mappings, c_log_id>>

ResolveMappings(c) ==
    /\ c_pc[c] = "get_mappings"
    /\ UNCHANGED <<now, redis, qm_running, stop_vars, other_vars, queue_vars,
                   sweeper_vars, worker_vars, produced,
                   handoffs, hist_vars, db_vars, calls, c_cutoff, c_deleted, admits, proc_vars>>
    /\ \/ /\ DbRaises
          /\ EndCall(c, "error")
       \/ /\ UNCHANGED faults
          /\ IF GetForwardingMappings(c_call[c].source_channel_id) = <<>>
             THEN EndCall(c, "no_mappings")
             ELSE /\ c_mappings' = [c_mappings EXCEPT ![c] =
                                      GetForwardingMappings(c_call[c].source_channel_id)]
                  /\ GoOn(c, "create_log")
                  /\ UNCHANGED c_log_id

(* the table has no unique constraint *)
UniqueSourceMessage_none(rows, source_channel_id, source_message_id) == TRUE

(* the unique_source_message constraint of messages_log *)
UniqueSourceMessage(rows, source_channel_id, source_message_id) ==
    \A i \in 1..Len(rows) :
        ~(rows[i].source_channel_id = source_channel_id
            /\ rows[i].source_message_id = source_message_id)

MessageLog(id, source_channel_id, source_message_id, dest_channel_ids) ==
    [id |-> id, source_channel_id |-> source_channel_id,
     source_message_id |-> source_message_id, dest_channel_ids |-> dest_channel_ids,
     status |-> "pending", attempts |-> 0, last_error |-> "",
     forwarded_message_ids |-> {}]

(* ForwardingEngine._create_message_log *)
CreateMessageLog(c) ==
    /\ c_pc[c] = "create_log"
    /\ UNCHANGED <<now, redis, qm_running, stop_vars, other_vars, queue_vars,
                   sweeper_vars, worker_vars, produced,
                   handoffs, hist_vars, deduplication_cache, calls, c_cutoff, c_deleted, admits, proc_vars>>
    /\ LET source_channel == ChannelByTelegramId(c_call[c].source_channel_id)
           dest_channel_ids == [i \in 1..Len(c_mappings[c]) |-> c_mappings[c][i].dest_channel_id]
       IN \/ /\ DbRaises
             /\ EndCall(c, "error")
             /\ UNCHANGED messages_log
          \/ /\ UNCHANGED faults
             /\ IF UniqueSourceMessage(messages_log, source_channel.id, c_call[c].message_id)
                THEN /\ messages_log' = Append(messages_log,
                            MessageLog(Len(messages_log) + 1, source_channel.id,
                                       c_call[c].message_id, dest_channel_ids))
                     /\ c_log_id' = [c_log_id EXCEPT ![c] = Len(messages_log) + 1]
                     /\ GoOn(c, "enqueue")
                     /\ UNCHANGED c_mappings
                ELSE /\ EndCall(c, "integrity_error")
                     /\ UNCHANGED messages_log

Admission(c) ==
    [content_hash |-> c_call[c].message_data.content_hash,
     source_channel_id |-> c_call[c].source_channel_id,
     message_id |-> c_call[c].message_id,
     message_log_id |-> c_log_id[c],
     at |-> now,
     late |-> c_call[c].message_data.content_hash \in c_blocked[c],
     race |-> /\ c_call[c].message_data.content_hash \notin c_blocked[c]
              /\ c_call[c].message_data.content_hash # ""
              /\ \E a \in admits : /\ a.content_hash = c_call[c].message_data.content_hash
                                   /\ IsCacheValid(a.at)]

EnqueueNewMessage(c) ==
    /\ c_pc[c] = "enqueue"
    /\ UNCHANGED <<now, redis, qm_running, stop_vars, other_vars, sweeper_vars,
                   worker_vars, produced, handoffs,
                   hist_vars, db_vars, calls, c_cutoff, c_deleted, proc_vars>>
    /\ LET queue_item == QueueItem(c_log_id[c], c_call[c].source_channel_id,
                                   c_call[c].message_id, ItemMappings(c_mappings[c]),
                                   c_call[c].message_data)
       IN \/ /\ ~redis \/ ~JsonSerializable(queue_item)
             /\ EndCall(c, "error")
             /\ UNCHANGED <<queue_vars, faults, admits>>
          \/ /\ redis /\ JsonSerializable(queue_item)
             /\ RedisRaises
             /\ EndCall(c, "error")
             /\ UNCHANGED <<queue_vars, admits>>
          \/ /\ redis /\ JsonSerializable(queue_item)
             /\ EnqueueMessage(queue_item, 0)
             /\ EndCall(c, "queued")
             /\ admits' = admits \cup {Admission(c)}
             /\ UNCHANGED faults

----------------------------------------------------------------------------
(* ForwardingEngine._process_queued_message, as the worker that dequeued   *)
(* the item runs it.                                                       *)

HasLog(id) == id \in 1..Len(messages_log)

ToExceptHandler(w, text) ==
    /\ w_pc' = [w_pc EXCEPT ![w] = "log_error"]
    /\ w_err' = [w_err EXCEPT ![w] = text]

(* _update_message_log_status(message_log_id, MessageStatus.PROCESSING) *)
UpdateMessageLogStatus(w) ==
    /\ w_pc[w] = "got"
    /\ UNCHANGED <<now, redis, qm_running, stop_vars, other_vars, queue_vars,
                   sweeper_vars, w_item, produced,
                   handoffs, hist_vars, deduplication_cache, caller_vars>>
    /\ w_outcomes' = [w_outcomes EXCEPT ![w] = <<>>]
    /\ \/ /\ DbRaises
          /\ ToExceptHandler(w, "status update failed")
          /\ UNCHANGED <<messages_log, w_idx, w_fwd, w_all_ok>>
       \/ /\ UNCHANGED faults
          /\ IF HasLog(w_item[w].message_log_id)
             THEN /\ messages_log' = [messages_log EXCEPT
                                        ![w_item[w].message_log_id].status = "processing"]
                  /\ w_pc' = [w_pc EXCEPT ![w] = IF w_item[w].mappings = <<>> THEN "result"
                                                 ELSE "forward"]
                  /\ w_idx' = [w_idx EXCEPT ![w] = 1]
                  /\ w_fwd' = [w_fwd EXCEPT ![w] = {}]
                  /\ w_all_ok' = [w_all_ok EXCEPT ![w] = TRUE]
                  /\ UNCHANGED w_err
             ELSE /\ ToExceptHandler(w, "No row was found")
                  /\ UNCHANGED <<messages_log, w_idx, w_fwd, w_all_ok>>

(* _forward_single_message for the next mapping: the id of the delivered   *)
(* message, or None for every failure of the client call.                  *)
TransportResults == {"ok", "rate_limited", "transient", "permanent"}

(* result['message_id'] of a successful client call *)
TransportMessageId(dest_channel_id) == 500 + dest_channel_id

(* only the first delivered id is kept *)
SetForwarded_first(forwarded_message_ids, dest_channel_id, message_id) ==
    IF forwarded_message_ids = {}
    THEN {[dest |-> dest_channel_id, message_id |-> message_id]}
    ELSE forwarded_message_ids

(* forwarded_message_ids[str(dest_channel_id)] = result['message_id'] *)
SetForwarded(forwarded_message_ids, dest_channel_id, message_id) ==
    {f \in forwarded_message_ids : f.dest # dest_channel_id}
        \cup {[dest |-> dest_channel_id, message_id |-> message_id]}

(* the loop ends at the first destination that fails *)
LoopNext_breaks(result, idx, n) ==
    IF idx = n \/ result # "ok" THEN "result" ELSE "forward"

(* for mapping in mappings: the next mapping, or the statements after the loop *)
LoopNext(result, idx, n) ==
    IF idx = n THEN "result" ELSE "forward"

ForwardSingleMessage(w, result) ==
    /\ w_pc[w] = "forward"
    /\ UNCHANGED <<now, redis, qm_running, stop_vars, other_vars, queue_vars,
                   sweeper_vars, w_item, produced,
                   handoffs, faults, hist_vars, db_vars, caller_vars, w_err>>
    /\ LET mapping == w_item[w].mappings[w_idx[w]]
       IN IF result = "ok"
          THEN /\ w_fwd' = [w_fwd EXCEPT ![w] =
                             SetForwarded(@, mapping.dest_channel_id,
                                          TransportMessageId(mapping.dest_channel_id))]
               /\ UNCHANGED w_all_ok
          ELSE /\ w_all_ok' = [w_all_ok EXCEPT ![w] = FALSE]
               /\ UNCHANGED w_fwd
    /\ w_outcomes' = [w_outcomes EXCEPT ![w] = Append(@, result)]
    /\ w_idx' = [w_idx EXCEPT ![w] = @ + 1]
    /\ w_pc' = [w_pc EXCEPT ![w] = LoopNext(result, w_idx[w], Len(w_item[w].mappings))]

(* a partial outcome is recorded as RETRYING *)
ResultRow_retrying(row, all_successful, forwarded_message_ids) ==
    IF all_successful
    THEN [row EXCEPT !.status = "success", !.forwarded_message_ids = forwarded_message_ids]
    ELSE [row EXCEPT !.status = "retrying", !.forwarded_message_ids = forwarded_message_ids,
                     !.last_error = "Partial success - some destinations failed"]

(* the row as _update_message_log_success / _partial_success leave it *)
ResultRow(row, all_successful, forwarded_message_ids) ==
    IF all_successful
    THEN [row EXCEPT !.status = "success", !.forwarded_message_ids = forwarded_message_ids]
    ELSE [row EXCEPT !.status = "failed", !.forwarded_message_ids = forwarded_message_ids,
                     !.last_error = "Partial success - some destinations failed"]

(* _process_queued_message returns: its locals are gone *)
EndProcessing(w) ==
    /\ w_idx' = [w_idx EXCEPT ![w] = 0]
    /\ w_fwd' = [w_fwd EXCEPT ![w] = {}]
    /\ w_all_ok' = [w_all_ok EXCEPT ![w] = TRUE]
    /\ w_outcomes' = [w_outcomes EXCEPT ![w] = <<>>]

(* _update_message_log_success / _update_message_log_partial_success *)
UpdateMessageLogResult(w) ==
    /\ w_pc[w] = "result"
    /\ UNCHANGED <<now, redis, qm_running, stop_vars, other_vars, queue_vars,
                   sweeper_vars, produced, handoffs,
                   hist_vars, deduplication_cache, caller_vars>>
    /\ \/ /\ DbRaises
          /\ ToExceptHandler(w, "result update failed")
          /\ UNCHANGED <<messages_log, w_item, w_idx, w_fwd, w_all_ok, w_outcomes>>
       \/ /\ UNCHANGED <<faults, w_err>>
          /\ messages_log' = [messages_log EXCEPT ![w_item[w].message_log_id] =
                                 ResultRow(@, w_all_ok[w], w_fwd[w])]
          /\ EndProcessing(w)
          /\ Release(w)

(* the exception ends the worker task *)
WorkerLoopExcept_propagates == "stopped"

(* _process_queue_worker: except Exception: log, asyncio.sleep(5), go on *)
WorkerLoopExcept == "backoff"

(* except Exception: _update_message_log_error(message_log_id, str(e)); if *)
(* that raises too, the exception reaches the worker loop.                 *)
UpdateMessageLogError(w) ==
    /\ w_pc[w] = "log_error"
    /\ UNCHANGED <<now, redis, qm_running, stop_vars, other_vars, queue_vars,
                   sweeper_vars, produced, handoffs,
                   hist_vars, deduplication_cache, caller_vars>>
    /\ EndProcessing(w)
    /\ w_item' = [w_item EXCEPT ![w] = NoItem]
    /\ w_err' = [w_err EXCEPT ![w] = ""]
    /\ \/ /\ DbRaises
          /\ w_pc' = [w_pc EXCEPT ![w] = WorkerLoopExcept]
          /\ UNCHANGED messages_log
       \/ /\ UNCHANGED faults
          /\ IF HasLog(w_item[w].message_log_id)
             THEN /\ messages_log' = [messages_log EXCEPT ![w_item[w].message_log_id] =
                        [@ EXCEPT !.status = "failed", !.last_error = w_err[w],
                                  !.attempts = @ + 1]]
                  /\ w_pc' = [w_pc EXCEPT ![w] = "idle"]
             ELSE /\ w_pc' = [w_pc EXCEPT ![w] = WorkerLoopExcept]
                  /\ UNCHANGED messages_log

(* the worker loop after its back-off *)
WorkerBackoff(w) ==
    /\ w_pc[w] = "backoff"
    /\ w_pc' = [w_pc EXCEPT ![w] = "idle"]
    /\ UNCHANGED <<now, redis, qm_running, stop_vars, other_vars, queue_vars,
                   sweeper_vars, w_item, produced,
                   handoffs, faults, hist_vars, engine_vars>>

----------------------------------------------------------------------------
(* ForwardingEngine.stop and QueueManager.stop.  main.py starts the engine *)
(* once and stops it once at shutdown (run, lines 139-147), so an engine   *)
(* that was stopped is not started again.  After redis.close() the         *)
(* attribute still holds the client, so redis stays TRUE.                  *)

(* the CancelledError is caught by _process_queued_message's handler *)
ProcessQueuedCancel_caught == "log_error"

(* except Exception in _process_queued_message lets CancelledError, a      *)
(* BaseException since Python 3.8, through                                 *)
ProcessQueuedCancel == "cancelled"

(* task.cancel(): where the CancelledError thrown into the worker ends up *)
CancelAt(pc) == IF pc \in {"got", "forward", "result"} THEN ProcessQueuedCancel ELSE "cancelled"

(* stop up to its gather: the flag is cleared and every task is cancelled *)
StopBegin ==
    /\ running
    /\ stop_pc = "none"
    /\ running' = FALSE
    /\ stop_pc' = "gather"
    /\ w_pc' = [w \in Workers |-> IF w \in processing_tasks THEN CancelAt(w_pc[w]) ELSE w_pc[w]]
    /\ UNCHANGED <<now, other_vars, redis, qm_running, processing_tasks, queue_vars,
                   sweeper_vars, w_item,
                   produced, handoffs, faults, hist_vars, engine_vars>>

(* _process_queue_worker: except asyncio.CancelledError: break *)
WorkerCancelled(w) ==
    /\ w_pc[w] = "cancelled"
    /\ w_pc' = [w_pc EXCEPT ![w] = "off"]
    /\ w_item' = [w_item EXCEPT ![w] = NoItem]
    /\ EndProcessing(w)
    /\ w_err' = [w_err EXCEPT ![w] = ""]
    /\ UNCHANGED <<now, redis, qm_running, stop_vars, other_vars, queue_vars,
                   sweeper_vars, produced,
                   handoffs, faults, hist_vars, db_vars, caller_vars>>

(* the gather returns, the task list is cleared, and QueueManager.stop runs *)
(* up to its own gather                                                     *)
StopGather ==
    /\ stop_pc = "gather"
    /\ \A w \in processing_tasks : w_pc[w] = "off"
    /\ processing_tasks' = {}
    /\ IF qm_running
       THEN /\ qm_running' = FALSE
            /\ sw_pc' = [sw \in Sweepers |-> "cancelled"]
            /\ stop_pc' = "qm_gather"
       ELSE /\ stop_pc' = "returned"
            /\ UNCHANGED <<qm_running, sw_pc>>
    /\ UNCHANGED <<now, other_vars, redis, running, queue_vars, sw_results, sw_hold,
                   sw_wake, sw_last_err,
                   worker_vars, produced, handoffs, faults, hist_vars, engine_vars>>

(* _process_retry_queue / _process_flood_wait_queue:                       *)
(* except asyncio.CancelledError: break                                    *)
SweeperCancelled(sw) ==
    /\ sw_pc[sw] = "cancelled"
    /\ sw_pc' = [sw_pc EXCEPT ![sw] = "off"]
    /\ sw_results' = [sw_results EXCEPT ![sw] = <<>>]
    /\ sw_hold' = [sw_hold EXCEPT ![sw] = NoJson]
    /\ UNCHANGED <<now, redis, qm_running, stop_vars, other_vars, queue_vars, sw_wake,
                   sw_last_err,
                   worker_vars, produced, handoffs, faults, hist_vars, engine_vars>>

(* QueueManager.stop after its gather: redis.close(), and both stops return *)
StopClose ==
    /\ stop_pc = "qm_gather"
    /\ \A sw \in Sweepers : sw_pc[sw] = "off"
    /\ stop_pc' = "returned"
    /\ UNCHANGED <<now, other_vars, redis, qm_running, running, processing_tasks,
                   queue_vars, sweeper_vars,
                   worker_vars, produced, handoffs, faults, hist_vars, engine_vars>>

----------------------------------------------------------------------------
(* The engine: admission calls and the worker pool.  The engine never      *)
(* calls enqueue_retry, enqueue_flood_wait or enqueue_failed, so the two   *)
(* background processors only ever read empty sets here and are left out.  *)

Next ==
    \/ Start
    \/ \E c \in Callers, src \in Sources, mid \in MessageIds, hash \in Hashes :
          Call(c, src, mid, hash)
    \/ \E c \in Callers : IsDuplicate(c)
    \/ \E c \in Callers : ResolveMappings(c)
    \/ \E c \in Callers : CreateMessageLog(c)
    \/ \E c \in Callers : EnqueueNewMessage(c)
    \/ \E w \in Workers : DequeueZPopMax(w) /\ UNCHANGED deq_log
    \/ \E w \in Workers : DequeueBRPop(w) /\ UNCHANGED deq_log
    \/ \E w \in Workers : UpdateMessageLogStatus(w)
    \/ \E w \in Workers, result \in TransportResults : ForwardSingleMessage(w, result)
    \/ \E w \in Workers : UpdateMessageLogResult(w)
    \/ \E w \in Workers : UpdateMessageLogError(w)
    \/ \E w \in Workers : WorkerBackoff(w)

Spec == Init /\ [][Next]_vars

----------------------------------------------------------------------------
(* The engine from start to shutdown: messages of one source are admitted  *)
(* and delivered, and stop is called at any moment.                        *)

WorkerNext ==
    \/ \E w \in Workers : DequeueZPopMax(w) /\ UNCHANGED deq_log
    \/ \E w \in Workers : DequeueBRPop(w) /\ UNCHANGED deq_log
    \/ \E w \in Workers : UpdateMessageLogStatus(w)
    \/ \E w \in Workers, result \in TransportResults : ForwardSingleMessage(w, result)
    \/ \E w \in Workers : UpdateMessageLogResult(w)
    \/ \E w \in Workers : UpdateMessageLogError(w)
    \/ \E w \in Workers : WorkerBackoff(w)

StopNext ==
    \/ Start
    \/ \E c \in Callers, mid \in MessageIds, hash \in Hashes : Call(c, 100, mid, hash)
    \/ \E c \in Callers : IsDuplicate(c)
    \/ \E c \in Callers : ResolveMappings(c)
    \/ \E c \in Callers : CreateMessageLog(c)
    \/ \E c \in Callers : EnqueueNewMessage(c)
    \/ WorkerNext
    \/ StopBegin
    \/ \E w \in Workers : WorkerCancelled(w)
    \/ StopGather
    \/ \E sw \in Sweepers : SweeperCancelled(sw)
    \/ StopClose

SpecStop == Init /\ [][StopNext]_vars

----------------------------------------------------------------------------
(* DeduplicationService under callers of is_duplicate and                  *)
(* mark_as_processed, with a clock that passes the TTL.                    *)

(* on conflict the row is replaced by the new one *)
MarkedEntry_refreshes(cache, content_hash, source_channel_id, source_message_id) ==
    {e \in cache : e.content_hash # content_hash}
      \cup {[content_hash |-> content_hash, source_channel_id |-> source_channel_id,
              source_message_id |-> source_message_id, created_at |-> now]}

(* insert ... on_conflict_do_nothing(index_elements=['content_hash']) *)
MarkedEntry(cache, content_hash, source_channel_id, source_message_id) ==
    IF \E e \in cache : e.content_hash = content_hash
    THEN cache
    ELSE cache \cup {[content_hash |-> content_hash, source_channel_id |-> source_channel_id,
                       source_message_id |-> source_message_id, created_at |-> now]}

(* DeduplicationService.mark_as_processed, called by c; it returns None    *)
(* whatever happens; c_outcome keeps whether the insert met an entry      *)
MarkAsProcessed(c, content_hash, source_channel_id, source_message_id) ==
    /\ c_pc[c] = "idle"
    /\ \/ /\ content_hash # ""
          /\ DbRaises
          /\ UNCHANGED deduplication_cache
          /\ c_outcome' = [c_outcome EXCEPT ![c] = "mark_done"]
       \/ /\ UNCHANGED faults
          /\ deduplication_cache' =
                IF content_hash = "" THEN deduplication_cache
                ELSE MarkedEntry(deduplication_cache, content_hash, source_channel_id,
                                 source_message_id)
          /\ c_outcome' = [c_outcome EXCEPT ![c] =
                IF content_hash # "" /\ \E e \in deduplication_cache : e.content_hash = content_hash
                THEN "mark_ignored" ELSE "mark_done"]
    /\ UNCHANGED <<now, redis, qm_running, stop_vars, other_vars, queue_vars,
                   sweeper_vars, worker_vars, produced,
                   handoffs, hist_vars, messages_log, calls, c_pc, c_call, c_mappings, c_log_id,
                   c_blocked, admits, c_cutoff, c_deleted, proc_vars>>

(* is_duplicate returned False to a caller other than the engine *)
DedupReturn(c) ==
    /\ c_pc[c] = "get_mappings"
    /\ EndCall(c, "not_duplicate")
    /\ UNCHANGED <<now, redis, qm_running, stop_vars, other_vars, queue_vars,
                   sweeper_vars, worker_vars, produced,
                   handoffs, faults, hist_vars, db_vars, calls, c_cutoff, c_deleted, admits, proc_vars>>

(* the cutoff leaves the TTL out *)
CutoffTime_now(t) == t

(* cutoff_time = datetime.utcnow() - timedelta(hours=self.cache_ttl_hours) *)
CutoffTime(t) == t - cache_ttl_hours * 3600

(* delete(DeduplicationCache).where(DeduplicationCache.created_at < cutoff_time) *)
ExpiredEntries(cache, cutoff_time) == {e \in cache : e.created_at < cutoff_time}

(* cleanup_expired_entries up to its first await: the cutoff is computed *)
CleanupBegin(c) ==
    /\ c_pc[c] = "idle"
    /\ calls < MaxCalls
    /\ calls' = calls + 1
    /\ c_pc' = [c_pc EXCEPT ![c] = "cleanup"]
    /\ c_outcome' = [c_outcome EXCEPT ![c] = "running"]
    /\ c_cutoff' = [c_cutoff EXCEPT ![c] = CutoffTime(now)]
    /\ UNCHANGED <<now, redis, qm_running, stop_vars, other_vars, queue_vars,
                   sweeper_vars, worker_vars, produced,
                   handoffs, faults, hist_vars, db_vars, c_call, c_mappings, c_log_id,
                   c_blocked, c_deleted, admits, proc_vars>>

(* cleanup_expired_entries: the DELETE, its rowcount returned; 0 when the   *)
(* database raises                                                          *)
CleanupExpiredEntries(c) ==
    /\ c_pc[c] = "cleanup"
    /\ \/ /\ DbRaises
          /\ UNCHANGED deduplication_cache
          /\ c_deleted' = [c_deleted EXCEPT ![c] = 0]
       \/ /\ UNCHANGED faults
          /\ deduplication_cache' =
                deduplication_cache \ ExpiredEntries(deduplication_cache, c_cutoff[c])
          /\ c_deleted' = [c_deleted EXCEPT ![c] =
                Cardinality(ExpiredEntries(deduplication_cache, c_cutoff[c]))]
    /\ c_pc' = [c_pc EXCEPT ![c] = "idle"]
    /\ c_outcome' = [c_outcome EXCEPT ![c] = "cleaned"]
    /\ c_cutoff' = [c_cutoff EXCEPT ![c] = 0]
    /\ UNCHANGED <<now, redis, qm_running, stop_vars, other_vars, queue_vars,
                   sweeper_vars, worker_vars, produced,
                   handoffs, hist_vars, messages_log, calls, c_call, c_mappings, c_log_id,
                   c_blocked, admits, proc_vars>>

Later ==
    /\ now + ClockStepHours * 3600 <= MaxHours * 3600
    /\ now' = now + ClockStepHours * 3600
    /\ UNCHANGED <<redis, qm_running, stop_vars, other_vars, queue_vars, sweeper_vars,
                   worker_vars, produced,
                   handoffs, faults, hist_vars, engine_vars>>

DedupNext ==
    \/ \E c \in Callers, hash \in Fingerprints \cup {""} : Call(c, 100, 1, hash)
    \/ \E c \in Callers : IsDuplicate(c)
    \/ \E c \in Callers : DedupReturn(c)
    \/ \E c \in Callers, hash \in Fingerprints \cup {""}, mid \in MessageIds :
          MarkAsProcessed(c, hash, 100, mid)
    \/ \E c \in Callers : CleanupBegin(c)
    \/ \E c \in Callers : CleanupExpiredEntries(c)
    \/ Later

SpecDedup == Init /\ [][DedupNext]_vars

----------------------------------------------------------------------------
(* ForwardingEngine.start and stop called any number of times, also while  *)
(* another call is suspended at one of its awaits.  A step runs a call to  *)
(* its next await; tasks holds, for every task that has not finished, its  *)
(* identity and whether cancel() was called on it.  The connection to      *)
(* Redis succeeds.                                                         *)

LiveTask(t) == [task |-> t, cancelled |-> FALSE]
Live(kind) == {t \in tasks : t.task.kind = kind}
WorkerTasks(s) == {Task("worker", s, i) : i \in 1..NumWorkers}
Cancel(ts) == {IF t.task \in ts THEN [t EXCEPT !.cancelled = TRUE] ELSE t : t \in tasks}

(* ForwardingEngine.start after QueueManager.start returned: the flag is   *)
(* set, the workers are created and appended to _processing_tasks          *)
CreateWorkers(s, live) ==
    /\ running' = TRUE
    /\ tasks' = live \cup {LiveTask(t) : t \in WorkerTasks(s)}
    /\ processing_tasks' = processing_tasks \cup WorkerTasks(s)
    /\ st_pc' = [st_pc EXCEPT ![s] = "returned"]

(* ForwardingEngine.start up to the first await of QueueManager.start *)
EngineStart(s) ==
    /\ st_pc[s] = "none"
    /\ IF running
       THEN /\ st_pc' = [st_pc EXCEPT ![s] = "returned"]
            /\ UNCHANGED <<running, tasks, processing_tasks>>
       ELSE IF qm_running
            THEN CreateWorkers(s, tasks)
            ELSE /\ st_pc' = [st_pc EXCEPT ![s] = "from_url"]
                 /\ UNCHANGED <<running, tasks, processing_tasks>>
    /\ UNCHANGED <<now, redis, qm_running, stop_pc, retry_processor_task,
                   flood_wait_processor_task, extract_vars, wr_last, queue_vars, sweeper_vars,
                   worker_vars, produced, handoffs, faults, hist_vars, engine_vars>>

(* self.redis = await aioredis.from_url(...) *)
QueueManagerFromUrl(s) ==
    /\ st_pc[s] = "from_url"
    /\ redis' = TRUE
    /\ st_pc' = [st_pc EXCEPT ![s] = "ping"]
    /\ UNCHANGED <<now, qm_running, stop_vars, tasks, retry_processor_task,
                   flood_wait_processor_task, extract_vars, wr_last, queue_vars, sweeper_vars,
                   worker_vars, produced, handoffs, faults, hist_vars, engine_vars>>

(* await self.redis.ping() returns: QueueManager.start sets its flag and   *)
(* creates the two background processors, and ForwardingEngine.start goes  *)
(* on to create its workers                                                *)
QueueManagerPing(s) ==
    /\ st_pc[s] = "ping"
    /\ qm_running' = TRUE
    /\ retry_processor_task' = Task("retry", s, 0)
    /\ flood_wait_processor_task' = Task("flood_wait", s, 0)
    /\ CreateWorkers(s, tasks \cup {LiveTask(Task("retry", s, 0)),
                                    LiveTask(Task("flood_wait", s, 0))})
    /\ UNCHANGED <<now, redis, stop_pc, extract_vars, wr_last, queue_vars, sweeper_vars,
                   worker_vars, produced, handoffs, faults, hist_vars, engine_vars>>

(* ForwardingEngine.stop up to its gather *)
EngineStop ==
    /\ stop_pc \in {"none", "returned"}
    /\ IF running
       THEN /\ running' = FALSE
            /\ tasks' = Cancel(processing_tasks)
            /\ stop_pc' = "gather"
       ELSE /\ stop_pc' = "returned"
            /\ UNCHANGED <<running, tasks>>
    /\ UNCHANGED <<now, redis, qm_running, processing_tasks, st_pc, retry_processor_task,
                   flood_wait_processor_task, extract_vars, wr_last, queue_vars, sweeper_vars,
                   worker_vars, produced, handoffs, faults, hist_vars, engine_vars>>

(* a cancelled task gets its CancelledError and ends *)
TaskEnds(t) ==
    /\ t \in tasks
    /\ t.cancelled
    /\ tasks' = tasks \ {t}
    /\ UNCHANGED <<now, redis, qm_running, stop_vars, st_pc, retry_processor_task,
                   flood_wait_processor_task, extract_vars, wr_last, queue_vars, sweeper_vars,
                   worker_vars, produced, handoffs, faults, hist_vars, engine_vars>>

(* the gather of ForwardingEngine.stop returns: _processing_tasks.clear(), *)
(* then QueueManager.stop up to its gather                                 *)
EngineStopGathered ==
    /\ stop_pc = "gather"
    /\ ~\E t \in Live("worker") : t.cancelled
    /\ processing_tasks' = {}
    /\ IF qm_running
       THEN /\ qm_running' = FALSE
            /\ tasks' = Cancel({retry_processor_task, flood_wait_processor_task})
            /\ stop_pc' = "qm_gather"
       ELSE /\ stop_pc' = "returned"
            /\ UNCHANGED <<qm_running, tasks>>
    /\ UNCHANGED <<now, redis, running, st_pc, retry_processor_task,
                   flood_wait_processor_task, extract_vars, wr_last, queue_vars, sweeper_vars,
                   worker_vars, produced, handoffs, faults, hist_vars, engine_vars>>

(* the gather of QueueManager.stop returns; await self.redis.close() *)
QueueManagerStopGathered ==
    /\ stop_pc = "qm_gather"
    /\ ~\E t \in Live("retry") \cup Live("flood_wait") : t.cancelled
    /\ stop_pc' = IF redis THEN "close" ELSE "returned"
    /\ UNCHANGED <<now, redis, qm_running, running, processing_tasks, start_vars,
                   extract_vars, wr_last, queue_vars, sweeper_vars, worker_vars, produced,
                   handoffs, faults, hist_vars, engine_vars>>

(* redis.close() returns, and both stop calls return *)
QueueManagerClose ==
    /\ stop_pc = "close"
    /\ stop_pc' = "returned"
    /\ UNCHANGED <<now, redis, qm_running, running, processing_tasks, start_vars,
                   extract_vars, wr_last, queue_vars, sweeper_vars, worker_vars, produced,
                   handoffs, faults, hist_vars, engine_vars>>

StartNext ==
    \/ \E s \in StartCalls : EngineStart(s)
    \/ \E s \in StartCalls : QueueManagerFromUrl(s)
    \/ \E s \in StartCalls : QueueManagerPing(s)
    \/ EngineStop
    \/ \E t \in tasks : TaskEnds(t)
    \/ EngineStopGathered
    \/ QueueManagerStopGathered
    \/ QueueManagerClose

SpecStart == Init /\ [][StartNext]_vars

----------------------------------------------------------------------------
(* Callers of the four enqueue methods of QueueManager, before and after   *)
(* start, with what the call does to its caller: return or raise.          *)

(* the error is logged and the call returns *)
WriteExcept_swallows == "returned"

(* except Exception as e: logger.error(...); raise *)
WriteExcept == "raised"

WriteItem(id, date) ==
    QueueItem(id, 100, 40 + id, <<Mapping(8, "forward", "bot", "user")>>,
              MessageData("abc", date))

WriteCall(op, d, Stored) ==
    /\ UNCHANGED engine_vars
    /\ UNCHANGED <<now, redis, qm_running, stop_vars, start_vars, extract_vars,
                   sweeper_vars, worker_vars, hist_vars>>
    /\ IF ~redis
       THEN /\ wr_last' = Write(op, d.message_log_id, "raised")
            /\ UNCHANGED <<queue_vars, faults>>
       ELSE \/ /\ ~JsonSerializable(d)
               /\ wr_last' = Write(op, d.message_log_id, WriteExcept)
               /\ UNCHANGED <<queue_vars, faults>>
            \/ /\ JsonSerializable(d)
               /\ RedisRaises
               /\ wr_last' = Write(op, d.message_log_id, WriteExcept)
               /\ UNCHANGED queue_vars
            \/ /\ JsonSerializable(d)
               /\ Stored
               /\ wr_last' = Write(op, d.message_log_id, "returned")
               /\ UNCHANGED faults

CallEnqueueMessage(d, priority) ==
    /\ produced < MaxItems
    /\ produced' = produced + 1
    /\ UNCHANGED handoffs
    /\ WriteCall("enqueue_message", d, EnqueueMessage(d, priority))

CallEnqueueRetry(d, delay_seconds) ==
    /\ handoffs < MaxHandoffs
    /\ handoffs' = handoffs + 1
    /\ UNCHANGED produced
    /\ WriteCall("enqueue_retry", d, EnqueueRetry(d, delay_seconds))

CallEnqueueFloodWait(d, wait_seconds) ==
    /\ handoffs < MaxHandoffs
    /\ handoffs' = handoffs + 1
    /\ UNCHANGED produced
    /\ WriteCall("enqueue_flood_wait", d, EnqueueFloodWait(d, wait_seconds))

CallEnqueueFailed(d) ==
    /\ handoffs < MaxHandoffs
    /\ handoffs' = handoffs + 1
    /\ UNCHANGED produced
    /\ WriteCall("enqueue_failed", d, EnqueueFailed(d, "error"))

WritesNext ==
    \/ Start
    \/ \E id \in MessageIds, date \in {"None", "datetime"} :
          \/ \E p \in Priorities : CallEnqueueMessage(WriteItem(id, date), p)
          \/ \E delay \in Delays : CallEnqueueRetry(WriteItem(id, date), delay)
          \/ \E delay \in Delays : CallEnqueueFloodWait(WriteItem(id, date), delay)
          \/ CallEnqueueFailed(WriteItem(id, date))

SpecWrites == Init /\ [][WritesNext]_vars

----------------------------------------------------------------------------
(* MessageProcessor.extract_message_data: the message is read through      *)
(* UserClientManager.get_messages and its content hash is computed.        *)

(* dict.get(key, default) *)
DictGet(d, key, default) == IF key \in DOMAIN d THEN d[key] ELSE default

(* str() *)
StrOfBool(b) == IF b THEN "True" ELSE "False"
StrOf(v) ==
    IF v.type = "NoneType" THEN "None"
    ELSE IF v.type = "int" THEN ToString(v.int)
    ELSE v.str

(* '|'.join(content_parts) *)
Join(parts) == parts[1] \o "|" \o parts[2] \o "|" \o parts[3]

(* hashlib.sha256(..).hexdigest(), taken as free of collisions *)
Sha256(content_string) == "sha256(" \o content_string \o ")"

(* UserClientManager.get_messages for one id: the dicts it builds *)
GetMessages(message_id) ==
    IF chat[message_id].present
    THEN <<[id |-> message_id,
            text |-> chat[message_id].text,
            date |-> "datetime",
            media |-> chat[message_id].media,
            from_id |-> chat[message_id].from_id]>>
    ELSE <<>>

(* MessageProcessor._generate_content_hash *)
GenerateContentHash(message_data) ==
    LET content_parts == <<DictGet(message_data, "text", ""),
                           StrOfBool(DictGet(message_data, "has_media", FALSE)),
                           StrOf(DictGet(message_data, "from_id", PyStr("")))>>
    IN Sha256(Join(content_parts))

(* MessageProcessor._determine_message_type *)
DetermineMessageType(message_data) ==
    IF DictGet(message_data, "has_media", FALSE) THEN "media"
    ELSE IF DictGet(message_data, "text", "") # "" THEN "text"
    ELSE "other"

(* the extracted_data dict, or <<>> for None *)
ExtractedData(source_channel_id, message_id) ==
    LET messages == GetMessages(message_id)
    IN IF messages = <<>> THEN <<>>
       ELSE LET message_data == messages[1]
            IN <<[message_id |-> message_data.id,
                  source_channel_id |-> source_channel_id,
                  text |-> DictGet(message_data, "text", ""),
                  date |-> DictGet(message_data, "date", "None"),
                  has_media |-> DictGet(message_data, "media", FALSE),
                  from_id |-> DictGet(message_data, "from_id", PyNone),
                  content_hash |-> GenerateContentHash(message_data),
                  message_type |-> DetermineMessageType(message_data),
                  extracted_at |-> now]>>

(* a message appears in the source chat *)
Post(message_id, text, media, from_id) ==
    /\ ~chat[message_id].present
    /\ chat' = [chat EXCEPT ![message_id] = TelethonMessage(text, media, from_id)]
    /\ UNCHANGED <<now, redis, qm_running, stop_vars, start_vars, extracted, wr_last,
                   queue_vars,
                   sweeper_vars, worker_vars, produced, handoffs, faults, hist_vars,
                   engine_vars>>

ExtractMessageData(source_channel_id, message_id) ==
    /\ extracted' = [extracted EXCEPT ![message_id] =
                        ExtractedData(source_channel_id, message_id)]
    /\ UNCHANGED <<now, redis, qm_running, stop_vars, start_vars, chat, wr_last, queue_vars,
                   sweeper_vars, worker_vars, produced, handoffs, faults, hist_vars,
                   engine_vars>>

ExtractNext ==
    \/ \E mid \in MessageIds, text \in Texts, media \in BOOLEAN, from_id \in Authors :
          Post(mid, text, media, from_id)
    \/ \E mid \in MessageIds : ExtractMessageData(100, mid)

SpecExtract == Init /\ [][ExtractNext]_vars

----------------------------------------------------------------------------
(* What the queues hold *)

ListItems(k) == {JsonLoads(redis_lists[k][i]) : i \in 1..Len(redis_lists[k])}
ZSetItems(k) == {JsonLoads(e.member) : e \in redis_zsets[k]}
QueueIds(k) ==
    IF k \in ListKeys
    THEN {PyNumber(redis_lists[k][i].message_log_id) : i \in 1..Len(redis_lists[k])}
    ELSE {PyNumber(e.member.message_log_id) : e \in redis_zsets[k]}
QueuesHolding(id) == {k \in ListKeys \cup ZSetKeys : id \in QueueIds(k)}
Visible ==
    ListItems(main_queue) \cup ZSetItems(priority_queue)
      \cup {w_item[w] : w \in {v \in Workers : w_pc[v] = "got"}}
      \cup {JsonLoads(sw_hold[sw]) : sw \in {x \in Sweepers : sw_pc[x] = "enqueue"}}

SentIndex(d) == CHOOSE k \in 1..Len(sent) : sent[k] = Content(d)

----------------------------------------------------------------------------
(* C1: once a fingerprint was admitted, no call that began afterwards and  *)
(* within the dedup TTL, carrying the same fingerprint, is admitted.       *)
C1_LaterSameFingerprintRejected ==
    \A a \in admits : ~a.late

(* C2: of the calls carrying one fingerprint that run interleaved, at most *)
(* one is admitted.                                                        *)
C2_AtMostOnceUnderConcurrency ==
    \A a \in admits : ~a.race

(* C3: messages_log never holds two rows with the same (source channel,    *)
(* source message id); a call that reaches record creation for a pair that *)
(* already has a row ends there, changing no row and no queue.             *)
SamePair(r, source_channel_id, source_message_id) ==
    r.source_channel_id = source_channel_id /\ r.source_message_id = source_message_id

C3_Step ==
    /\ \A i, j \in 1..Len(messages_log') :
          SamePair(messages_log'[i], messages_log'[j].source_channel_id,
                   messages_log'[j].source_message_id) => i = j
    /\ \A c \in Callers :
          (/\ c_pc[c] = "create_log" /\ c_pc'[c] # "create_log"
           /\ \E i \in 1..Len(messages_log) :
                 SamePair(messages_log[i], ChannelByTelegramId(c_call[c].source_channel_id).id,
                          c_call[c].message_id))
          => /\ messages_log' = messages_log
             /\ UNCHANGED queue_vars
             /\ c_pc'[c] = "idle"

C3_UniqueSourceMessage == [][C3_Step]_vars

C3_Witness ==
    \E c \in Callers : c_outcome[c] = "integrity_error"

(* C4: a call whose source channel has no enabled rule ends at the mapping *)
(* lookup: no messages_log row, no queue item and no deduplication_cache   *)
(* row is written, and no row or queued item ever names such a source.     *)
NoEnabledRules(source_channel_id) ==
    ~\E m \in forwarding_mappings :
        /\ m.enabled
        /\ ChannelById(m.source_channel_id).telegram_id = source_channel_id
        /\ ChannelById(m.source_channel_id).is_active

C4_Step ==
    /\ \A c \in Callers :
          (/\ c_pc[c] = "get_mappings" /\ c_pc'[c] # "get_mappings"
           /\ NoEnabledRules(c_call[c].source_channel_id))
          => /\ UNCHANGED <<messages_log, deduplication_cache, queue_vars>>
             /\ c_pc'[c] = "idle"
    /\ \A i \in 1..Len(messages_log') :
          ~NoEnabledRules(ChannelById(messages_log'[i].source_channel_id).telegram_id)
    /\ \A i \in 1..Len(redis_lists'[main_queue]) :
          ~NoEnabledRules(JsonLoads(redis_lists'[main_queue][i]).source_channel_id)

C4_NoRulesDropsMessage == [][C4_Step]_vars

C4_Witness ==
    \E c \in Callers : c_outcome[c] = "no_mappings"

(* C5: no queue item is in more than one of the five queues (main list,    *)
(* main priority set, retry, flood-wait, failed) at the same time.         *)
C5_InAtMostOneQueue ==
    \A id \in 1..MaxItems : Cardinality(QueuesHolding(id)) <= 1

C5_Witness ==
    /\ redis_zsets[retry_queue] # {}
    /\ \E d \in ListItems(main_queue) : d.flood_wait_until >= 0

(* C6: a single consumer draining the main queue gets every item with      *)
(* priority > 0 in descending priority order before any priority-0 item,   *)
(* the priority-0 items in the order they were enqueued, and gets them all.*)
C6_PriorityThenFifo ==
    /\ \A i, j \in 1..Len(deq_log) : i < j =>
          /\ deq_log[j].priority > 0 => deq_log[i].priority >= deq_log[j].priority
          /\ deq_log[i].priority = 0 /\ deq_log[j].priority = 0
                => SentIndex(deq_log[i]) < SentIndex(deq_log[j])
    /\ (redis_lists[main_queue] = <<>> /\ redis_zsets[priority_queue] = {})
          => Len(deq_log) = Len(sent)

C6_Witness ==
    /\ Len(deq_log) = 4
    /\ [i \in 1..4 |-> deq_log[i].priority] = <<5, 3, 0, 0>>
    /\ [i \in 1..4 |-> deq_log[i].message_log_id] = <<2, 4, 1, 3>>

(* C7: every item dequeue_message returns has the content fields           *)
(* (message_log_id, source_channel_id, message_id, mappings, message_data) *)
(* of an item that enqueue_message stored, and no two returns are the same *)
(* stored item.                                                            *)
C7_RoundTrip ==
    /\ \A i \in 1..Len(deq_log) : \E k \in 1..Len(sent) : sent[k] = Content(deq_log[i])
    /\ \A i, j \in 1..Len(deq_log) : Content(deq_log[i]) = Content(deq_log[j]) => i = j

C7_Witness ==
    /\ Len(sent) = 1
    /\ Len(deq_log) = 1
    /\ deq_log[1].message_id >= 10
    /\ Len(deq_log[1].mappings) = 1

(* C8: an item whose ready-at (retry_after, flood_wait_until) is T is not  *)
(* in the main queue, not in a worker's hands and not being re-enqueued by *)
(* a processor at any time before T.                                       *)
C8_InvisibleBeforeReady ==
    \A d \in Visible : d.retry_after <= now /\ d.flood_wait_until <= now

C8_Witness ==
    \E w \in Workers : w_pc[w] = "got" /\ w_item[w].retry_after > 0

StatusSteps(Allowed(_, _, _)) ==
    \A id \in 1..Len(messages_log') :
        IF id > Len(messages_log)
        THEN messages_log'[id].status = "pending"
        ELSE \/ messages_log'[id].status = messages_log[id].status
             \/ Allowed(messages_log[id].status, messages_log'[id].status,
                        messages_log'[id].last_error)

ClaimedStep(old, new, last_error) ==
    \/ old = "pending" /\ new = "processing"
    \/ old = "processing" /\ new \in {"success", "failed"}

C10_StatusPath == [][StatusSteps(ClaimedStep)]_vars

(* C10 amended: as claimed, except that a row also goes from PENDING       *)
(* straight to FAILED when the update to PROCESSING raised and the except  *)
(* handler recorded that error.                                            *)
AmendedStep(old, new, last_error) ==
    \/ ClaimedStep(old, new, last_error)
    \/ old = "pending" /\ new = "failed" /\ last_error = "status update failed"

C10_StatusPathOrFailedOnError == [][StatusSteps(AmendedStep)]_vars

C10_Witness ==
    /\ \E id \in 1..Len(messages_log) :
          /\ messages_log[id].status = "failed"
          /\ messages_log[id].last_error = "status update failed"
    /\ \E id \in 1..Len(messages_log) : messages_log[id].status = "success"

----------------------------------------------------------------------------
(* Delivery by the workers.  The claims below are about a processing whose *)
(* record updates are committed: the steps in which a database statement   *)
(* raises are the subject of C16.                                          *)

Range(f) == {f[i] : i \in DOMAIN f}
OkAt(w) == {i \in 1..Len(w_outcomes[w]) : w_outcomes[w][i] = "ok"}
AllAttempted(w) == Len(w_outcomes[w]) = Len(w_item[w].mappings)
BeginsProcessing(w) == w_pc[w] = "got" /\ w_pc'[w] \in {"forward", "result"}
CommitsResult(w) ==
    w_pc[w] = "result" /\ w_pc'[w] \notin {"result", "cancelled"} /\ faults' = faults

(* C11: when every transport call for an item succeeded, its record goes   *)
(* PENDING -> PROCESSING -> SUCCESS and the stored map has exactly one     *)
(* entry per destination of the record, with the id the transport returned.*)
C11_Step ==
    \A w \in Workers :
        LET id == w_item[w].message_log_id
        IN /\ BeginsProcessing(w) =>
                 /\ messages_log[id].status = "pending"
                 /\ messages_log'[id].status = "processing"
           /\ (CommitsResult(w) /\ AllAttempted(w) /\ OkAt(w) = 1..Len(w_item[w].mappings)) =>
                 /\ messages_log[id].status = "processing"
                 /\ messages_log'[id].status = "success"
                 /\ messages_log'[id].forwarded_message_ids =
                       {[dest |-> d, message_id |-> TransportMessageId(d)] :
                           d \in Range(messages_log[id].dest_channel_ids)}

C11_AllDeliveredIsSuccess == [][C11_Step]_vars

C11_Witness ==
    \E id \in 1..Len(messages_log) :
        /\ messages_log[id].status = "success"
        /\ Cardinality(messages_log[id].forwarded_message_ids) = 2

(* C12: when some transport calls for an item succeeded and some failed,   *)
(* its record becomes FAILED with a map of exactly the destinations that   *)
(* succeeded and a non-empty error text, and the item is in no queue       *)
(* afterwards: a record that is FAILED or SUCCESS has no item queued.      *)
C12_Step ==
    /\ \A w \in Workers :
          LET id == w_item[w].message_log_id
          IN (/\ CommitsResult(w) /\ AllAttempted(w)
              /\ OkAt(w) # {} /\ OkAt(w) # 1..Len(w_item[w].mappings)) =>
                 /\ messages_log'[id].status = "failed"
                 /\ messages_log'[id].forwarded_message_ids =
                       {[dest |-> w_item[w].mappings[i].dest_channel_id,
                         message_id |-> TransportMessageId(w_item[w].mappings[i].dest_channel_id)] :
                           i \in OkAt(w)}
                 /\ messages_log'[id].last_error # ""
                 /\ UNCHANGED queue_vars
    /\ \A id \in 1..Len(messages_log') :
          messages_log'[id].status \in {"failed", "success"} => (QueuesHolding(id) = {})'

C12_PartialIsFailedNotRetried == [][C12_Step]_vars

C12_Witness ==
    \E id \in 1..Len(messages_log) :
        /\ messages_log[id].status = "failed"
        /\ messages_log[id].last_error = "Partial success - some destinations failed"
        /\ Cardinality(messages_log[id].forwarded_message_ids) = 1

(* what the transport met for every destination of the item in hand *)
AllMet(w, result) ==
    /\ AllAttempted(w)
    /\ w_outcomes[w] # <<>>
    /\ \A i \in 1..Len(w_outcomes[w]) : w_outcomes[w][i] = result

(* C13: when the delivery attempts of an item met a rate-limit signal, the *)
(* record is not marked FAILED: it stays PROCESSING and the item is in the *)
(* flood-wait queue when the worker is done with it.                       *)
C13_Step ==
    \A w \in Workers :
        LET id == w_item[w].message_log_id
        IN (CommitsResult(w) /\ AllMet(w, "rate_limited")) =>
              /\ messages_log'[id].status = "processing"
              /\ (id \in QueueIds(flood_wait_queue))'

C13_RateLimitedIsRequeued == [][C13_Step]_vars

(* C14: when the delivery attempts of an item met a transient error and    *)
(* the item's attempt count is below max_retry_attempts, the record stays  *)
(* PROCESSING and the item is in the retry queue when the worker is done.  *)
C14_Step ==
    \A w \in Workers :
        LET id == w_item[w].message_log_id
        IN (/\ CommitsResult(w) /\ AllMet(w, "transient")
            /\ GetOrZero(w_item[w].attempts) < max_retry_attempts) =>
              /\ messages_log'[id].status = "processing"
              /\ (id \in QueueIds(retry_queue))'

C14_TransientIsRetried == [][C14_Step]_vars

(* C15: a record becomes FAILED on transient errors only at the failure    *)
(* with which the item's attempt count reaches max_retry_attempts, and the *)
(* item is then in the failed (dead-letter) queue.                         *)
C15_Step ==
    \A w \in Workers :
        LET id == w_item[w].message_log_id
        IN (/\ CommitsResult(w) /\ AllMet(w, "transient")
            /\ messages_log'[id].status = "failed") =>
              /\ GetOrZero(w_item[w].attempts) + 1 >= max_retry_attempts
              /\ (id \in QueueIds(failed_queue))'

C15_ExhaustedIsDeadLettered == [][C15_Step]_vars

(* the except branch of _process_queued_message is left *)
HandlerDone(w) == w_pc[w] = "log_error" /\ w_pc'[w] \notin {"log_error", "cancelled"}

(* an exception raised by a record update is caught, and no worker task    *)
(* ever ends while the engine runs                                         *)
WorkersSurvive ==
    \A w \in Workers :
      running' =>
        /\ w_pc'[w] # "stopped"
        /\ (w_pc[w] \in {"got", "result"} /\ w_pc'[w] # w_pc[w] /\ faults' # faults)
              => w_pc'[w] = "log_error"
        /\ HandlerDone(w) => w_pc'[w] \in {"idle", "backoff"}
        /\ w_pc[w] = "backoff" => w_pc'[w] \in {"backoff", "idle"}

(* C16 as claimed: whatever exception is raised while a worker processes   *)
(* an item, the record is marked FAILED with the exception text and the    *)
(* worker goes on.                                                         *)
C16_Step ==
    /\ WorkersSurvive
    /\ \A w \in Workers :
          HandlerDone(w) =>
             /\ messages_log'[w_item[w].message_log_id].status = "failed"
             /\ messages_log'[w_item[w].message_log_id].last_error = w_err[w]

C16_FailedAndWorkerGoesOn == [][C16_Step]_vars

(* C16 amended: the worker always goes on; the record is marked FAILED     *)
(* with the exception text when the update made by the except branch is    *)
(* committed, and keeps the status it had when that update raises too.     *)
C16_AmendedStep ==
    /\ WorkersSurvive
    /\ \A w \in Workers :
          HandlerDone(w) =>
             IF faults' = faults
             THEN /\ messages_log'[w_item[w].message_log_id].status = "failed"
                  /\ messages_log'[w_item[w].message_log_id].last_error = w_err[w]
                  /\ w_pc'[w] = "idle"
             ELSE /\ messages_log' = messages_log
                  /\ w_pc'[w] = "backoff"

C16_WorkerGoesOn == [][C16_AmendedStep]_vars

C16_Witness ==
    /\ \E w \in Workers : w_pc[w] = "backoff"
    /\ \E id \in 1..Len(messages_log) : messages_log[id].status = "processing"
    /\ \E id \in 1..Len(messages_log) :
          messages_log[id].status = "failed" /\ messages_log[id].forwarded_message_ids # {}

(* C17: the mapping lookup returns only rules that are enabled and whose   *)
(* source and destination channels are both active, so no queue item       *)
(* lists a destination that is not active.                                 *)
C17_OnlyActiveEndpoints ==
    /\ \A c \in Callers : \A i \in 1..Len(c_mappings[c]) :
          /\ c_mappings[c][i].enabled
          /\ ChannelById(c_mappings[c][i].source_channel_id).is_active
          /\ ChannelById(c_mappings[c][i].dest_channel_id).is_active
    /\ \A d \in ListItems(main_queue) : \A i \in 1..Len(d.mappings) :
          ChannelById(d.mappings[i].dest_channel_id).is_active

(* C18: dequeue_message never raises: a caller in a dequeue call either   *)
(* gets an item or gets None and is back where it can call again, whether  *)
(* Redis is not connected, a command raised, or both the priority set and  *)
(* the list were empty; a call that returns None changes no queue.         *)
C18_Step ==
    \A w \in Workers :
        /\ w_pc[w] \in {"off", "none"} /\ w_pc'[w] # w_pc[w] /\ ~redis'
              => w_pc'[w] = "none" /\ UNCHANGED queue_vars
        /\ w_pc[w] \in {"idle", "brpop"} => w_pc'[w] \in {"idle", "brpop", "got"}
        /\ w_pc[w] = "idle" /\ w_pc'[w] = "brpop"
              => redis_zsets[priority_queue] = {} /\ UNCHANGED queue_vars
        /\ w_pc[w] = "brpop" /\ w_pc'[w] = "idle"
              => /\ UNCHANGED <<queue_vars, w_item>>
                 /\ faults' = faults => redis_lists[main_queue] = <<>>

C18_DequeueNeverRaises == [][C18_Step]_vars

C18_Witness ==
    /\ \E w \in Workers : w_pc[w] = "none"
    /\ produced > 0

(* C19: message data without a content fingerprint is dropped at           *)
(* admission: it is never given a messages_log row and never enqueued.     *)
C19_MalformedDropped ==
    /\ \A a \in admits : a.content_hash # ""
    /\ \A c \in Callers :
          c_pc[c] \in {"create_log", "enqueue"} => c_call[c].message_data.content_hash # ""

(* C20: a lookup during which no database statement raises returns True  *)
(* iff the cache holds an entry for the fingerprint that is younger than   *)
(* the TTL; otherwise no entry for the fingerprint is left afterwards; the *)
(* entries of every other fingerprint are left as they were.               *)
Unexpired(hash) ==
    \E e \in deduplication_cache :
        e.content_hash = hash /\ now - e.created_at < cache_ttl_hours * 3600

C20_Step ==
    \A c \in Callers :
        (c_pc[c] = "is_duplicate" /\ c_pc'[c] # "is_duplicate" /\ faults' = faults) =>
            LET hash == c_call[c].message_data.content_hash
            IN /\ c_outcome'[c] = "duplicate" <=> Unexpired(hash)
               /\ Unexpired(hash) => deduplication_cache' = deduplication_cache
               /\ ~Unexpired(hash) =>
                     /\ c_pc'[c] = "get_mappings"
                     /\ ~\E e \in deduplication_cache' : e.content_hash = hash
               /\ {e \in deduplication_cache' : e.content_hash # hash}
                     = {e \in deduplication_cache : e.content_hash # hash}

C20_DuplicateIffUnexpired == [][C20_Step]_vars

C20_Witness ==
    /\ \E c \in Callers : c_pc[c] = "get_mappings" /\ c_call[c].message_data.content_hash = "abc"
    /\ \E c \in Callers : c_outcome[c] = "duplicate"
    /\ now = cache_ttl_hours * 3600
    /\ \E e \in deduplication_cache : e.content_hash = "xyz" /\ e.created_at = 0
    /\ Cardinality(deduplication_cache) = 1

(* C21: when a database statement of the lookup raises, is_duplicate       *)
(* returns False, also for a fingerprint that has an unexpired entry:      *)
(* nothing reaches the caller, the cache is left as it was and             *)
(* process_new_message goes on to the mapping lookup.                      *)
C21_Step ==
    \A c \in Callers :
        (c_pc[c] = "is_duplicate" /\ c_pc'[c] # "is_duplicate" /\ faults' # faults) =>
            /\ c_pc'[c] = "get_mappings"
            /\ c_outcome'[c] = "running"
            /\ c_call'[c] = c_call[c]
            /\ deduplication_cache' = deduplication_cache

C21_LookupFailsOpen == [][C21_Step]_vars

C21_Witness ==
    /\ faults = 1
    /\ \E c \in Callers :
          /\ c_pc[c] = "get_mappings"
          /\ Unexpired(c_call[c].message_data.content_hash)

(* C22: a cleanup_expired_entries call whose database work succeeds deletes *)
(* every entry created before the cutoff the call computed (older than the  *)
(* TTL when it began), deletes no entry that is younger than the TTL (in    *)
(* particular none that mark_as_processed inserted since), and returns the  *)
(* number it deleted.                                                       *)
C22_Step ==
    \A c \in Callers :
        (c_pc[c] = "cleanup" /\ c_pc'[c] # "cleanup" /\ faults' = faults) =>
            /\ deduplication_cache' \subseteq deduplication_cache
            /\ \A e \in deduplication_cache :
                    /\ e.created_at < c_cutoff[c] => e \notin deduplication_cache'
                    /\ now - e.created_at < cache_ttl_hours * 3600 => e \in deduplication_cache'
            /\ c_deleted'[c] = Cardinality(deduplication_cache \ deduplication_cache')

C22_CleanupDeletesExpiredOnly == [][C22_Step]_vars

(* a cleanup has deleted an expired entry and kept one inserted within the TTL *)
C22_Witness ==
    /\ \E c \in Callers : c_outcome[c] = "cleaned" /\ c_deleted[c] > 0
    /\ \E e \in deduplication_cache : now - e.created_at < cache_ttl_hours * 3600

(* C23: ForwardingEngine.stop cancels every worker.  From the moment it   *)
(* has cleared the running flag no worker dequeues an item or updates a    *)
(* record, and no existing record is changed at all; once it has returned  *)
(* the flag is false, the task list is empty, every worker has ended and   *)
(* both background processors are stopped.  A record whose worker was      *)
(* cancelled in mid-delivery stays PROCESSING.                             *)
Stopped == stop_pc = "returned"

IsSuffix(old, new) ==
    Len(old) <= Len(new) /\ SubSeq(new, Len(new) - Len(old) + 1, Len(new)) = old

C23_AfterStop ==
    Stopped =>
        /\ ~running
        /\ processing_tasks = {}
        /\ ~qm_running
        /\ \A w \in Workers : w_pc[w] = "off"
        /\ \A sw \in Sweepers : sw_pc[sw] = "off"

C23_Step ==
    (~running /\ ~running') =>
        /\ \A w \in Workers : w_pc'[w] \in {"cancelled", "off"}
        /\ IsSuffix(redis_lists[main_queue], redis_lists'[main_queue])
        /\ redis_zsets[priority_queue] \subseteq redis_zsets'[priority_queue]
        /\ Len(messages_log) <= Len(messages_log')
        /\ \A id \in 1..Len(messages_log) : messages_log'[id] = messages_log[id]

C23_StopCancelsWorkers == [](C23_AfterStop) /\ [][C23_Step]_vars

(* stop has returned and left a record PROCESSING that no worker holds *)
C23_Witness ==
    /\ Stopped
    /\ redis
    /\ \E id \in 1..Len(messages_log) : messages_log[id].status = "processing"

(* C24: at any moment the item of a record is in one place at most: one    *)
(* position of the main queue, one member of the priority queue, or the    *)
(* hands of one worker.  No two workers hold items of the same record, and *)
(* a record whose processing has begun has no item left in a queue, so it  *)
(* is never handed out a second time.                                      *)
Holding(w) == w_pc[w] \in {"got", "forward", "result", "log_error"}

Places(id) ==
    {<<"list", i>> : i \in {j \in 1..Len(redis_lists[main_queue]) :
                               JsonLoads(redis_lists[main_queue][j]).message_log_id = id}}
      \cup {<<"zset", e>> : e \in {f \in redis_zsets[priority_queue] :
                                      JsonLoads(f.member).message_log_id = id}}
      \cup {<<"worker", w>> : w \in {v \in Workers : Holding(v) /\ w_item[v].message_log_id = id}}

C25_MoveIsAtomic ==
    \A sw \in Sweepers :
        sw_hold[sw] # NoJson =>
            JsonLoads(sw_hold[sw]).message_log_id \in QueueIds(SweepKey(sw)) \cup QueueIds(main_queue)

(* C26: when dequeue_message returns an item of priority 0, no item of     *)
(* priority > 0 is in the priority queue at that moment.                   *)
C26_Step ==
    \A w \in Workers :
        (w_pc[w] # "got" /\ w_pc'[w] = "got" /\ w_item'[w].priority = 0) =>
            redis_zsets'[priority_queue] = {}

C26_PriorityBeforeFifo == [][C26_Step]_vars

(* C27: of two items enqueued with the same priority, whether 0 or above,  *)
(* a single consumer gets the one enqueued first before the other.         *)
C27_FifoAmongEqualPriority ==
    \A i, j \in 1..Len(deq_log) :
        (i < j /\ deq_log[i].priority = deq_log[j].priority) =>
            SentIndex(deq_log[i]) < SentIndex(deq_log[j])

(* C28: a call of enqueue_retry that stores the item adds one member to    *)
(* the retry queue and changes nothing else in any queue: the member is    *)
(* the item in hand with its attempt counter one higher, and its ready-at  *)
(* (the score and the retry_after field) is now plus the delay given.      *)
C28_Step ==
    \A w \in Workers :
        (/\ w_pc[w] = "got" /\ w_pc'[w] # "got"
         /\ redis_zsets'[retry_queue] \ redis_zsets[retry_queue] # {}) =>
            \E e \in redis_zsets'[retry_queue], delay \in Delays :
                /\ redis_zsets'[retry_queue] = redis_zsets[retry_queue] \cup {e}
                /\ e \notin redis_zsets[retry_queue]
                /\ e.score = now + delay
                /\ JsonLoads(e.member) =
                      [w_item[w] EXCEPT !.attempts = GetOrZero(w_item[w].attempts) + 1,
                                         !.retry_after = now + delay]
                /\ redis_lists' = redis_lists
                /\ \A k \in ZSetKeys \ {retry_queue} : redis_zsets'[k] = redis_zsets[k]

C28_RetryCountsOneAttempt == [][C28_Step]_vars

C28_Witness ==
    \E e \in redis_zsets[retry_queue] :
        /\ JsonLoads(e.member).attempts = 1
        /\ JsonLoads(e.member).retry_after = now + 5

(* C29: an item that the flood-wait processor moves back to the main queue *)
(* carries the attempt count it had in the flood-wait queue, which is the  *)
(* count it was given to enqueue_flood_wait with.                          *)
C29_Step ==
    (/\ sw_pc["flood_wait"] = "enqueue" /\ sw_pc'["flood_wait"] # "enqueue"
     /\ Len(redis_lists'[main_queue]) > Len(redis_lists[main_queue])) =>
        JsonLoads(Head(redis_lists'[main_queue])).attempts =
            JsonLoads(sw_hold["flood_wait"]).attempts

C29_FloodWaitKeepsAttempts == [][C29_Step]_vars

(* C30: the failed queue only grows: every step leaves what it holds in    *)
(* place, and an item that is in it is afterwards in no other queue and is *)
(* handed to no worker.                                                    *)
C30_Step ==
    /\ IsSuffix(redis_lists[failed_queue], redis_lists'[failed_queue])
    /\ \A id \in QueueIds(failed_queue) :
          /\ (QueuesHolding(id) = {failed_queue})'
          /\ \A w \in Workers : w_pc'[w] = "got" => w_item'[w].message_log_id # id
          /\ \A sw \in Sweepers :
                sw_hold'[sw] # NoJson => JsonLoads(sw_hold'[sw]).message_log_id # id

C30_FailedIsTerminal == [][C30_Step]_vars

(* two items are in the failed queue, the second put there after the first *)
C30_Witness == Len(redis_lists[failed_queue]) = 2

(* C31: a background processor puts the item it moves at the tail of the   *)
(* main list with priority 0, and when a worker is handed such an item no  *)
(* item of priority > 0 that was enqueued before the move is still waiting.*)
Reentered(d) == d.retry_after >= 0 \/ d.flood_wait_until >= 0

C31_Step ==
    /\ \A sw \in Sweepers :
          (sw_pc[sw] = "enqueue" /\ sw_pc'[sw] # "enqueue"
           /\ redis_lists'[main_queue] # redis_lists[main_queue]) =>
              /\ Tail(redis_lists'[main_queue]) = redis_lists[main_queue]
              /\ JsonLoads(Head(redis_lists'[main_queue])).priority = 0
              /\ redis_zsets' = redis_zsets
    /\ \A w \in Workers :
          (w_pc[w] # "got" /\ w_pc'[w] = "got" /\ Reentered(w_item'[w])) =>
              \A e \in redis_zsets'[priority_queue] :
                  JsonLoads(e.member).enqueued_at >= w_item'[w].enqueued_at

C31_ReenteredAtTail == [][C31_Step]_vars

(* C32: mark_as_processed never touches an entry that exists: a step       *)
(* either keeps an entry as it is or leaves no entry for its fingerprint,  *)
(* a call for a fingerprint that has an entry changes nothing in the cache,*)
(* and no fingerprint ever has two entries.                                *)
C32_OnePerFingerprint ==
    \A e, f \in deduplication_cache : e.content_hash = f.content_hash => e = f

C32_Step ==
    /\ \A e \in deduplication_cache :
          (\E f \in deduplication_cache' : f.content_hash = e.content_hash)
              => e \in deduplication_cache'
    /\ \A c \in Callers :
          (c_outcome'[c] = "mark_ignored" /\ c_outcome[c] # "mark_ignored")
              => deduplication_cache' = deduplication_cache

C32_MarkIsInsertOrIgnore == [](C32_OnePerFingerprint) /\ [][C32_Step]_vars

(* a second call for a fingerprint came after the clock had moved on, and  *)
(* the entry still has the time of the first                               *)
C32_Witness ==
    /\ \E c \in Callers : c_outcome[c] = "mark_ignored"
    /\ \E d \in Callers : c_outcome[d] = "mark_done"
    /\ \E e \in deduplication_cache : e.created_at < now


----------------------------------------------------------------------------
(* C33: the step of process_new_message that admits a message pushes one   *)
(* item on the main queue and writes no record; the item names the one     *)
(* record created for the source message, and the destinations listed in   *)
(* the item, the destinations of the rules resolved for the source and the *)
(* destinations stored on the record are the same set.  No record is ever  *)
(* named by two admissions or by two queued items.                         *)
DestsOf(ms) == {ms[i].dest_channel_id : i \in DOMAIN ms}

RecordsOf(rows, source_channel_id, source_message_id) ==
    {i \in 1..Len(rows) : SamePair(rows[i], source_channel_id, source_message_id)}

C33_Step ==
    \A c \in Callers :
        (c_pc[c] = "enqueue" /\ c_outcome'[c] = "queued" /\ c_pc'[c] = "idle") =>
            /\ Len(redis_lists'[main_queue]) = Len(redis_lists[main_queue]) + 1
            /\ Tail(redis_lists'[main_queue]) = redis_lists[main_queue]
            /\ redis_zsets' = redis_zsets
            /\ messages_log' = messages_log
            /\ LET item == JsonLoads(Head(redis_lists'[main_queue]))
                   resolved == GetForwardingMappings(c_call[c].source_channel_id)
               IN /\ item.message_log_id = c_log_id[c]
                  /\ HasLog(item.message_log_id)
                  /\ RecordsOf(messages_log,
                               ChannelByTelegramId(c_call[c].source_channel_id).id,
                               c_call[c].message_id) = {item.message_log_id}
                  /\ Len(item.mappings) = Len(resolved)
                  /\ DestsOf(item.mappings) = DestsOf(resolved)
                  /\ Range(messages_log[item.message_log_id].dest_channel_ids)
                        = DestsOf(resolved)

C33_OneItemPerRecord ==
    /\ \A a, b \in admits : a.message_log_id = b.message_log_id => a = b
    /\ \A i, j \in 1..Len(redis_lists[main_queue]) :
          JsonLoads(redis_lists[main_queue][i]).message_log_id
             = JsonLoads(redis_lists[main_queue][j]).message_log_id => i = j

C33_OneRecordOneItem == [](C33_OneItemPerRecord) /\ [][C33_Step]_vars

C33_Witness ==
    \E a \in admits :
        /\ HasLog(a.message_log_id)
        /\ Len(messages_log[a.message_log_id].dest_channel_ids) = 2
        /\ \E i \in 1..Len(redis_lists[main_queue]) :
              /\ JsonLoads(redis_lists[main_queue][i]).message_log_id = a.message_log_id
              /\ Len(JsonLoads(redis_lists[main_queue][i]).mappings) = 2


----------------------------------------------------------------------------
(* C34: two extracted messages that differ in their text, in whether they  *)
(* carry media, or in their author have different content hashes.          *)
Fingerprinted(m) == <<m.text, m.media, m.from_id>>

C34_FieldChangeChangesHash ==
    \A m1, m2 \in MessageIds :
        (/\ extracted[m1] # <<>> /\ extracted[m2] # <<>>
         /\ Fingerprinted(chat[m1]) # Fingerprinted(chat[m2]))
        => extracted[m1][1].content_hash # extracted[m2][1].content_hash


----------------------------------------------------------------------------
(* C35: a worker calls _forward_single_message for the mappings of its     *)
(* item one after the other in list order, each once: the k-th call is for *)
(* the k-th mapping whatever the earlier calls returned, and the result is *)
(* written to the record only when there was a call for every mapping.     *)
Attempts(w) ==
    w_pc[w] = "forward" /\ Len(w_outcomes'[w]) = Len(w_outcomes[w]) + 1

C35_Step ==
    \A w \in Workers :
        /\ Attempts(w) =>
              /\ w_idx[w] = Len(w_outcomes[w]) + 1
              /\ w_idx[w] <= Len(w_item[w].mappings)
              /\ w_item'[w] = w_item[w]
              /\ w_idx'[w] = w_idx[w] + 1
              /\ w_pc'[w] = IF Len(w_outcomes'[w]) < Len(w_item[w].mappings)
                            THEN "forward" ELSE "result"
              /\ w_outcomes'[w][w_idx[w]] = "ok" =>
                    \E f \in w_fwd'[w] : f.dest = w_item[w].mappings[w_idx[w]].dest_channel_id
              /\ messages_log' = messages_log
        /\ (w_pc[w] = "forward" /\ w_pc'[w] # "forward") => Attempts(w)
        /\ (w_pc[w] = "result" /\ messages_log' # messages_log) => AllAttempted(w)

C35_InOrder ==
    \A w \in Workers :
        /\ w_pc[w] = "forward" => Len(w_outcomes[w]) < Len(w_item[w].mappings)
        /\ w_pc[w] = "result" => AllAttempted(w)

C35_EveryDestinationOnceInOrder == [](C35_InOrder) /\ [][C35_Step]_vars

C35_Witness ==
    \E w \in Workers :
        /\ w_pc[w] = "result"
        /\ Len(w_item[w].mappings) = 2
        /\ w_outcomes[w] = <<"transient", "ok">>


----------------------------------------------------------------------------
(* C36: the attempts an item carries never go down: the item a background  *)
(* processor puts back on the main queue carries the attempts it had in    *)
(* the retry or flood-wait queue, and a worker that dequeues an item that  *)
(* went through enqueue_retry finds attempts of at least 1.                *)
C36_Step ==
    /\ \A sw \in Sweepers :
          (sw_pc[sw] = "enqueue" /\ sw_pc'[sw] # "enqueue"
           /\ redis_lists'[main_queue] # redis_lists[main_queue]) =>
              JsonLoads(Head(redis_lists'[main_queue])).attempts
                 >= JsonLoads(sw_hold[sw]).attempts
    /\ \A w \in Workers :
          (w_pc[w] # "got" /\ w_pc'[w] = "got" /\ w_item'[w].retry_after >= 0) =>
              w_item'[w].attempts >= 1

C36_AttemptsNeverDecrease == [][C36_Step]_vars


----------------------------------------------------------------------------
(* C37: whenever no start or stop call is in progress, the worker tasks    *)
(* that have not finished number 0 or max_concurrent_forwards, and at most *)
(* one retry processor and one flood-wait processor have not finished.     *)
NoCallInProgress ==
    /\ \A s \in StartCalls : st_pc[s] \in {"none", "returned"}
    /\ stop_pc \in {"none", "returned"}

C37_ZeroOrNWorkers ==
    NoCallInProgress =>
        /\ Cardinality(Live("worker")) \in {0, NumWorkers}
        /\ Cardinality(Live("retry")) <= 1
        /\ Cardinality(Live("flood_wait")) <= 1


----------------------------------------------------------------------------
(* C38: a record that is PENDING, and whose process_new_message call is no *)
(* longer on its way to enqueue it, has exactly one item: on the main      *)
(* queue, in the priority set, or in the hands of a worker.                *)
BeingEnqueued(id) == \E c \in Callers : c_pc[c] = "enqueue" /\ c_log_id[c] = id

ItemsOf(id) ==
    Cardinality({i \in 1..Len(redis_lists[main_queue]) :
                    PyNumber(redis_lists[main_queue][i].message_log_id) = id})
      + Cardinality({e \in redis_zsets[priority_queue] :
                        PyNumber(e.member.message_log_id) = id})
      + Cardinality({w \in Workers : w_item[w].message_log_id = id})

C38_PendingHasOneItem ==
    \A id \in 1..Len(messages_log) :
        (messages_log[id].status = "pending" /\ ~BeingEnqueued(id)) => ItemsOf(id) = 1


----------------------------------------------------------------------------
(* C39: a call of enqueue_message, enqueue_retry, enqueue_flood_wait or    *)
(* enqueue_failed that is made before start, or in which the Redis command *)
(* raises, raises to its caller; a call that raises changes no queue, and  *)
(* a call that returns has put the item in the queue it is meant for.      *)
TargetQueues(op) ==
    IF op = "enqueue_message" THEN {main_queue, priority_queue}
    ELSE IF op = "enqueue_retry" THEN {retry_queue}
    ELSE IF op = "enqueue_flood_wait" THEN {flood_wait_queue}
    ELSE {failed_queue}

IsWrite == produced' # produced \/ handoffs' # handoffs

StoredAfter(k, id) ==
    IF k \in ListKeys
    THEN /\ Len(redis_lists'[k]) = Len(redis_lists[k]) + 1
         /\ PyNumber(Head(redis_lists'[k]).message_log_id) = id
    ELSE \E e \in redis_zsets'[k] : PyNumber(e.member.message_log_id) = id

C39_Step ==
    IsWrite =>
        /\ wr_last'.outcome \in {"raised", "returned"}
        /\ (~redis \/ faults' # faults) => wr_last'.outcome = "raised"
        /\ wr_last'.outcome = "raised" => UNCHANGED queue_vars
        /\ wr_last'.outcome = "returned" =>
              \E k \in TargetQueues(wr_last'.op) : StoredAfter(k, wr_last'.id)

C39_WritesFailClosed == [][C39_Step]_vars

C39_Witness ==
    /\ redis
    /\ faults > 0
    /\ wr_last.op = "enqueue_failed"
    /\ wr_last.outcome = "raised"
    /\ redis_lists[failed_queue] = <<>>

============================================================================
